---- MODULE Spec2Model ----
(***************************************************************************)
(* Model of the embedding ingestion and hybrid retrieval pipeline of       *)
(* Ollama-RAG-Sync:                                                        *)
(*   chunk_text, generate_chunk_embeddings  (generate_chunk_embeddings.py) *)
(*   store_embeddings_in_chromadb           (store_embeddings.py)          *)
(*   query_chroma                           (ragProxy.py)                  *)
(*                                                                         *)
(* A text is represented by the sequence of its lines, i.e. by the value   *)
(* of text.split('\n'): a non-empty sequence of newline-free strings.      *)
(* '\n'.join is the inverse of that split, so a chunk's text is kept as    *)
(* the sequence of the lines it joins.                                     *)
(***************************************************************************)
EXTENDS Integers, Sequences, FiniteSets, TLC

VARIABLES
    \* ---- chunk_text (one call) ----
    text,                \* the text argument, as its lines
    chunk_size,          \* the chunk_size argument
    chunk_overlap,       \* the chunk_overlap argument
    chunks,              \* the list chunk_text builds and returns
    current_line_index,  \* the loop cursor (0-based)
    cpc,                 \* position in chunk_text: "start", "loop", "done"
    \* ---- generate_chunk_embeddings (one call; it shares text, chunk_size,
    \*      chunk_overlap and chunks with the chunk_text call it makes) ----
    max_workers,         \* the max_workers argument
    include_text,        \* the include_text argument
    fut,                 \* the futures, by submission position: state and result
    collected,           \* positions whose future the as_completed loop has taken
    chunk_embeddings,    \* the result array (None until filled)
    gpc,                 \* position: "idle", "start", "collect", "exit", "returned"
    returned,            \* the value returned (NotReturned until then)
    reordered,           \* history: a future was taken before an earlier-submitted one
    sent,                \* history: the prompts the workers sent to the embedding
                         \* service, in the order sent
    \* ---- the vector store and store_embeddings_in_chromadb ----
    store,               \* the ChromaDB database: collection name -> its records, in
                         \* insertion order
    up,                  \* the calls of store_embeddings_in_chromadb, by process:
                         \* arguments, position, collection_names_to_use, loop index,
                         \* result; history: the store before the call (before) and
                         \* the loop index at which an exception ended it (failed_at),
                         \* the number of its deletes that raised (deletes_failed)
    prev,                \* history: arguments and result of the call finished before
                         \* the current one
    ingests,             \* history: number of calls started
    \* ---- query_chroma (one call) ----
    qargs,               \* the arguments, with the query embedding Ollama returned
    doc_results,         \* what the document index returned (document, metadata,
                         \* distance), nearest first
    chunk_results,       \* what the chunk index returned
    doc_results_list,    \* the document results that passed the threshold
    chunk_results_list,  \* the chunk results that passed the threshold
    qret,                \* the dictionary returned (NotReturned until then)
    qread,               \* history: the collections the call asked the client for
    qfailed,             \* history: the indexes ("documents", "chunks") whose
                         \* query raised an exception
    qat,                 \* history: the value of ingests when the call ran, and
                         \* whether no ingestion was under way then
    \* ---- generate_document_embedding and the embedding clients ----
    dpc,                 \* position: "idle", "start", "calling", "returned"
    dret,                \* the value returned (NotReturned until then)
    dsent,               \* history: the prompts sent to the embedding service
    cres,                \* what each embedding client made of the last outcome of
                         \* the request: the outcome and the three results
    \* ---- main of generate_chunk_embeddings.py ----
    margs,               \* the command-line arguments
    mfs,                 \* the directories that exist
    mpc,                 \* position: "idle", "validate", "read", "generate", "exited"
    mexit,               \* the exit code (None until the process exits)
    merrors              \* history: the messages validate_parameters returned

chunkVars == <<text, chunk_size, chunk_overlap, chunks, current_line_index, cpc>>
embedVars == <<max_workers, include_text, fut, collected, chunk_embeddings, gpc,
               returned, reordered, sent>>

storeVars == <<store, up, prev, ingests>>

queryVars == <<qargs, doc_results, chunk_results, doc_results_list,
               chunk_results_list, qret, qread, qfailed, qat>>

docVars == <<dpc, dret, dsent, cres>>

mainVars == <<margs, mfs, mpc, mexit, merrors>>

vars == <<chunkVars, embedVars, storeVars, queryVars, docVars, mainVars>>

\* ------------------------------------------------------------------------
\* Bounds of the model
\* ------------------------------------------------------------------------
MaxLines == 6          \* texts of 1..MaxLines lines are enumerated exhaustively
MaxChunkSize == 4      \* chunk_size in 1..MaxChunkSize, chunk_overlap in 0..MaxChunkSize
MaxEmbedLines == 5     \* generate_chunk_embeddings: texts of 1..MaxEmbedLines lines
MaxWorkers == 3        \* generate_chunk_embeddings: max_workers in 1..MaxWorkers
MaxIngest == 3         \* calls of store_embeddings_in_chromadb in one behaviour
MaxResults == 3        \* query_chroma: n_results in 1..MaxResults
MaxPipelineLines == 3  \* the pipeline: texts of 1..MaxPipelineLines lines

\* ------------------------------------------------------------------------
\* Helpers
\* ------------------------------------------------------------------------
Min(a, b) == IF a <= b THEN a ELSE b
Max(a, b) == IF a >= b THEN a ELSE b

\* ceil(a / b) for a >= 0, b > 0
CeilDiv(a, b) == (a + b - 1) \div b

\* Lines a text is made of: whitespace-only lines and lines with content
BlankLines == {"", " "}
LineAlphabet == {"", "a"}

\* not text or not text.strip(): every line is whitespace only
IsBlankTextEmptyOnly(t) == t = <<"">>
IsBlankText(t) == \A i \in 1..Len(t) : t[i] \in BlankLines

\* All texts of 1..n lines over LineAlphabet
TextsUpTo(n) == UNION {[1..k -> LineAlphabet] : k \in 1..n}

\* The text of the documented scenario: 45 lines with content
ScenarioText == [i \in 1..45 |-> "a"]

\* ------------------------------------------------------------------------
\* chunk_text
\* ------------------------------------------------------------------------

\* the chunk returned for empty / whitespace-only text (line 114)
EmptyTextChunk(t) == [text |-> t, start_line |-> 1, end_line |-> 1]

\* the chunk returned when the text fits in one chunk (line 122)
WholeTextChunkBad(t, total_lines) == [text |-> t, start_line |-> 1, end_line |-> 1]
WholeTextChunk(t, total_lines) == [text |-> t, start_line |-> 1, end_line |-> total_lines]

\* end_line_index = min(current_line_index + chunk_size, total_lines) (line 129)
EndLineIndex(cur, size, total_lines) == Min(cur + size, total_lines)

\* chunk_info of one loop iteration (lines 132-140); lines[cur:end] is
\* the 1-based subsequence cur+1..end
ChunkInfoZeroBased(t, cur, end) ==
    [text |-> SubSeq(t, cur + 1, end), start_line |-> cur, end_line |-> end]
ChunkInfo(t, cur, end) ==
    [text |-> SubSeq(t, cur + 1, end), start_line |-> cur + 1, end_line |-> end]

\* current_line_index += max(1, chunk_size - chunk_overlap) (line 150)
NextLineIndexNoOverlap(cur, size, overlap) == cur + size
NextLineIndexUnguarded(cur, size, overlap) == cur + (size - overlap)
NextLineIndex(cur, size, overlap) == cur + Max(1, size - overlap)

\* the loop of lines 127-150 run to its end from cursor cur with the chunks
\* acc built so far
RECURSIVE ChunkLoopFrom(_, _, _, _, _)
ChunkLoopFrom(t, size, overlap, cur, acc) ==
    IF cur < Len(t)
      THEN LET end == EndLineIndex(cur, size, Len(t)) IN
           IF end = Len(t)
             THEN Append(acc, ChunkInfo(t, cur, end))
             ELSE ChunkLoopFrom(t, size, overlap, NextLineIndex(cur, size, overlap),
                                Append(acc, ChunkInfo(t, cur, end)))
      ELSE acc

\* chunk_text as a function of its arguments
chunk_text(t, size, overlap) ==
    IF IsBlankText(t) THEN <<EmptyTextChunk(t)>>
    ELSE IF Len(t) <= size THEN <<WholeTextChunk(t, Len(t))>>
    ELSE ChunkLoopFrom(t, size, overlap, 0, <<>>)

\* no call of generate_chunk_embeddings is in progress
None == [none |-> TRUE]
NotReturned == [pending |-> TRUE]
EmbedIdle ==
    /\ max_workers = 1
    /\ include_text = TRUE
    /\ fut = <<>>
    /\ collected = {}
    /\ chunk_embeddings = <<>>
    /\ gpc = "idle"
    /\ returned = NotReturned
    /\ reordered = FALSE
    /\ sent = <<>>

\* an empty database and no call of store_embeddings_in_chromadb
NoCall == [pc |-> "idle"]
StoreIdle ==
    /\ store = <<>>
    /\ up = [p \in {1} |-> NoCall]
    /\ prev = None
    /\ ingests = 0

\* the chunk-embedding tool has not been started
MainIdle ==
    /\ margs = None
    /\ mfs = {}
    /\ mpc = "idle"
    /\ mexit = None
    /\ merrors = {}

\* no call of generate_document_embedding or of an embedding client
DocIdle ==
    /\ dpc = "idle"
    /\ dret = NotReturned
    /\ dsent = <<>>
    /\ cres = None

\* no call of query_chroma has been made
QueryIdle ==
    /\ qargs = None
    /\ doc_results = <<>>
    /\ chunk_results = <<>>
    /\ doc_results_list = <<>>
    /\ chunk_results_list = <<>>
    /\ qret = NotReturned
    /\ qread = {}
    /\ qfailed = {}
    /\ qat = [ingests |-> 0, quiescent |-> TRUE]

\* chunk_text up to the loop: the two early returns, or the loop's start
ChunkEnter ==
    /\ cpc = "start"
    /\ IF IsBlankText(text)
         THEN /\ chunks' = <<EmptyTextChunk(text)>>
              /\ cpc' = "done"
              /\ UNCHANGED current_line_index
         ELSE IF Len(text) <= chunk_size
           THEN /\ chunks' = <<WholeTextChunk(text, Len(text))>>
                /\ cpc' = "done"
                /\ UNCHANGED current_line_index
           ELSE /\ chunks' = <<>>
                /\ current_line_index' = 0
                /\ cpc' = "loop"
    /\ UNCHANGED <<text, chunk_size, chunk_overlap>>

\* one evaluation of the while condition and, if it holds, one iteration
ChunkLoop ==
    /\ cpc = "loop"
    /\ IF current_line_index < Len(text)
         THEN LET end == EndLineIndex(current_line_index, chunk_size, Len(text)) IN
              /\ chunks' = Append(chunks, ChunkInfo(text, current_line_index, end))
              /\ IF end = Len(text)
                   THEN /\ cpc' = "done"
                        /\ UNCHANGED current_line_index
                   ELSE /\ cpc' = "loop"
                        /\ current_line_index' =
                             NextLineIndex(current_line_index, chunk_size, chunk_overlap)
         ELSE /\ cpc' = "done"
              /\ UNCHANGED <<chunks, current_line_index>>
    /\ UNCHANGED <<text, chunk_size, chunk_overlap>>

ChunkInit ==
    /\ \/ /\ text \in TextsUpTo(MaxLines)
          /\ chunk_size \in 1..MaxChunkSize
          /\ chunk_overlap \in 0..MaxChunkSize
       \/ /\ text = ScenarioText
          /\ chunk_size = 20
          /\ chunk_overlap = 2
    /\ chunks = <<>>
    /\ current_line_index = 0
    /\ cpc = "start"
    /\ EmbedIdle
    /\ StoreIdle
    /\ QueryIdle
    /\ DocIdle
    /\ MainIdle

ChunkNext ==
    \/ ChunkEnter /\ UNCHANGED <<embedVars, storeVars, queryVars, docVars, mainVars>>
    \/ ChunkLoop /\ UNCHANGED <<embedVars, storeVars, queryVars, docVars, mainVars>>

SpecChunk == ChunkInit /\ [][ChunkNext]_vars

\* chunk_text is straight-line code with one loop and no blocking call: a
\* call that has a next step takes it
SpecChunkFair == ChunkInit /\ [][ChunkNext]_vars /\ WF_vars(ChunkNext)

\* ------------------------------------------------------------------------
\* generate_chunk_embeddings
\*
\* Positions are 1-based here: position p stands for Python index p - 1, so
\* chunk_id at position p is p - 1.  The futures run on a ThreadPoolExecutor:
\* its work queue is first-in first-out, at most max_workers tasks run at a
\* time, and leaving the with-block (also by return) waits for every
\* submitted task.  A call of get_embedding_from_ollama ends with an
\* embedding or with None (any transport or format error, lines 203-262);
\* the duration and created_at clock readings it also returns are left out.
\* ------------------------------------------------------------------------

\* the vector the embedding service computes for a prompt
EmbeddingOf(prompt) == [vector |-> prompt]

\* texts given to generate_chunk_embeddings: n lines with distinct contents,
\* a whitespace-only text, and a text with a leading empty line
ContentLines == <<"a", "b", "c", "d", "e", "f", "g", "h">>
EmbedTexts ==
    {SubSeq(ContentLines, 1, n) : n \in 1..MaxEmbedLines}
        \cup {<<"">>, <<"", " ">>, <<"", "a", "b">>}

Positions == 1..Len(chunks)
Running == {p \in DOMAIN fut : fut[p].state = "running"}
IsDone(p) == fut[p].state = "done"

\* embedding_result is None or embedding_result["embedding"] is None (line 318)
EmbeddingFailedNever(result) == FALSE
EmbeddingFailed(result) == result = None

\* the slot of the result array that the future submitted at position p
\* fills, when it is the n-th to be collected (line 335)
ResultSlotByCompletion(p, n) == n
ResultSlot(p, n) == p

\* chunk_embedding with the line range written only next to the text
ChunkEmbeddingBare(p, chunk_data, embedding, with_text) ==
    IF with_text
      THEN [chunk_id |-> p - 1, start_line |-> chunk_data.start_line,
            end_line |-> chunk_data.end_line, embedding |-> embedding,
            text |-> chunk_data.text]
      ELSE [chunk_id |-> p - 1, embedding |-> embedding]
\* chunk_embedding (lines 322-333)
ChunkEmbedding(p, chunk_data, embedding, with_text) ==
    LET base == [chunk_id |-> p - 1,
                 start_line |-> chunk_data.start_line,
                 end_line |-> chunk_data.end_line,
                 embedding |-> embedding]
    IN IF with_text
         THEN [chunk_id |-> base.chunk_id, start_line |-> base.start_line,
               end_line |-> base.end_line, embedding |-> base.embedding,
               text |-> chunk_data.text]
         ELSE base

\* lines 282-307: the empty-input check, the split, the result array and the
\* submission of one task per chunk
GenStart ==
    /\ gpc = "start"
    /\ IF IsBlankText(text)
         THEN /\ returned' = None
              /\ gpc' = "returned"
              /\ UNCHANGED <<chunks, chunk_embeddings, fut>>
         ELSE LET cs == chunk_text(text, chunk_size, chunk_overlap) IN
              /\ chunks' = cs
              /\ chunk_embeddings' = [p \in 1..Len(cs) |-> None]
              /\ fut' = [p \in 1..Len(cs) |-> [state |-> "queued", embedding |-> None]]
              /\ gpc' = "collect"
              /\ UNCHANGED returned
    /\ UNCHANGED <<text, chunk_size, chunk_overlap, current_line_index, cpc,
                   max_workers, include_text, collected, reordered, sent>>

\* ThreadPoolExecutor(max_workers): a task is started only by one of the
\* max_workers threads, each running one task at a time (line 296)
WorkerFreeAlways(running, workers) == TRUE
WorkerFree(running, workers) == Cardinality(running) < workers

\* a free worker thread takes the oldest queued task and sends its request
WorkerTake(p) ==
    /\ gpc \in {"collect", "exit"}
    /\ p \in DOMAIN fut
    /\ fut[p].state = "queued"
    /\ \A q \in 1..(p - 1) : fut[q].state # "queued"
    /\ WorkerFree(Running, max_workers)
    /\ fut' = [fut EXCEPT ![p].state = "running"]
    /\ sent' = Append(sent, chunks[p].text)
    /\ UNCHANGED <<chunkVars, max_workers, include_text, collected,
                   chunk_embeddings, gpc, returned, reordered>>

\* the request of a running task ends, with an embedding (ok) or without
WorkerFinish(p, ok) ==
    /\ gpc \in {"collect", "exit"}
    /\ p \in DOMAIN fut
    /\ fut[p].state = "running"
    /\ fut' = [fut EXCEPT ![p] =
                 [state |-> "done",
                  embedding |-> IF ok THEN EmbeddingOf(chunks[p].text) ELSE None]]
    /\ UNCHANGED <<chunkVars, max_workers, include_text, collected,
                   chunk_embeddings, gpc, returned, reordered, sent>>

\* one iteration of the as_completed loop (lines 311-341) on a finished
\* future not yet taken; after the last one the loop ends (line 343)
Collect(p) ==
    /\ gpc = "collect"
    /\ p \in DOMAIN fut
    /\ IsDone(p)
    /\ p \notin collected
    /\ collected' = collected \cup {p}
    /\ reordered' = (reordered \/ \E q \in 1..(p - 1) : q \notin collected)
    /\ IF EmbeddingFailed(fut[p].embedding)
         THEN /\ returned' = None
              /\ gpc' = "exit"
              /\ UNCHANGED chunk_embeddings
         ELSE /\ chunk_embeddings' =
                   [chunk_embeddings EXCEPT
                      ![ResultSlot(p, Cardinality(collected) + 1)] =
                          ChunkEmbedding(p, chunks[p], fut[p].embedding, include_text)]
              /\ IF collected' = DOMAIN fut
                   THEN /\ returned' = [list |-> chunk_embeddings']
                        /\ gpc' = "exit"
                   ELSE UNCHANGED <<returned, gpc>>
    /\ UNCHANGED <<chunkVars, max_workers, include_text, fut, sent>>

\* ThreadPoolExecutor.__exit__ is shutdown(wait=True) without
\* cancel_futures: it returns once every submitted task, queued ones
\* included, has run to its end
ShutdownReturnsCancelling(futures) ==
    \A p \in DOMAIN futures : futures[p].state # "running"
ShutdownReturns(futures) ==
    \A p \in DOMAIN futures : futures[p].state = "done"

\* leaving the with-block: the executor's shutdown(wait=True) returns once
\* every submitted task has finished; then the function returns
ExecutorExit ==
    /\ gpc = "exit"
    /\ ShutdownReturns(fut)
    /\ gpc' = "returned"
    /\ UNCHANGED <<chunkVars, max_workers, include_text, fut, collected,
                   chunk_embeddings, returned, reordered, sent>>

\* ------------------------------------------------------------------------
\* The embedding clients (get_embedding_from_ollama, three copies) and
\* generate_document_embedding
\*
\* A decoded JSON value is a record tagged with its type; a dictionary keeps
\* its members as a function from keys to values.
\* ------------------------------------------------------------------------
MaxDocLines == 3       \* generate_document_embedding: texts of up to MaxDocLines lines

JNull == [type |-> "null"]
JNum(n) == [type |-> "num", v |-> n]
JStr(str) == [type |-> "str", s |-> str]
JList(items) == [type |-> "list", items |-> items]
JDict(fields) == [type |-> "dict", fields |-> fields]
JVector(ns) == JList([i \in 1..Len(ns) |-> JNum(ns[i])])

\* json.loads gives None for null
PyValue(v) == IF v = JNull THEN None ELSE v

\* the truth value Python gives a decoded value
Truthy(v) ==
    CASE v.type = "null" -> FALSE
      [] v.type = "num" -> v.v # 0
      [] v.type = "str" -> v.s # ""
      [] v.type = "list" -> Len(v.items) > 0
      [] v.type = "dict" -> DOMAIN v.fields # {}

\* the result of the format detection: an exception, or the value of the
\* local variable embedding (None when no format was identified)
Raised == [raises |-> TRUE]
Parsed(embedding) == [raises |-> FALSE, embedding |-> embedding]

\* "Handle different response formats", generate_document_embedding.py
\* lines 83-104 (the same text as generate_chunk_embeddings.py lines 207-228)
ParseResponse(response_data) ==
    IF response_data.type = "dict" THEN
        IF "embedding" \in DOMAIN response_data.fields
          THEN Parsed(PyValue(response_data.fields.embedding))
        ELSE IF "embeddings" \in DOMAIN response_data.fields
          THEN LET embeddings_val == response_data.fields.embeddings IN
               IF ~Truthy(embeddings_val) THEN Parsed(PyValue(embeddings_val))
               ELSE IF embeddings_val.type \in {"num", "dict"} THEN Raised
               ELSE IF /\ embeddings_val.type = "list"
                       /\ embeddings_val.items[1].type = "list"
                 THEN Parsed(embeddings_val.items[1])
               ELSE Parsed(embeddings_val)
        ELSE Parsed(None)
    ELSE IF response_data.type = "list" /\ Len(response_data.items) > 0 THEN
        LET first_item == response_data.items[1] IN
        IF first_item.type = "dict" THEN
            IF "embedding" \in DOMAIN first_item.fields
              THEN Parsed(PyValue(first_item.fields.embedding))
            ELSE IF "embeddings" \in DOMAIN first_item.fields
              THEN Parsed(PyValue(first_item.fields.embeddings))
            ELSE Parsed(None)
        ELSE IF first_item.type = "num" THEN Parsed(response_data)
        ELSE Parsed(None)
    ELSE Parsed(None)

\* What a request to the embedding service comes to: a body that decodes to
\* a JSON value, a body that is not JSON, an HTTP error status, a connection
\* error (URLError), or another exception (a read timeout)
Response(data) == [kind |-> "response", data |-> data]
Failures ==
    {[kind |-> k] : k \in {"bad_json", "http_error", "url_error", "exception"}}

\* get_embedding_from_ollama of generate_document_embedding.py (lines 33-119),
\* by its "embedding" entry: only URLError (and HTTPError, its subclass) is
\* caught, any other exception leaves the function
DocumentClient(outcome) ==
    IF outcome.kind = "response" THEN ParseResponse(outcome.data)
    ELSE IF outcome.kind = "exception" THEN Raised
    ELSE Parsed(None)

\* get_embedding_from_ollama of generate_chunk_embeddings.py (lines 155-262),
\* by its "embedding" entry: every exception is caught (line 253)
ChunkClient(outcome) ==
    IF outcome.kind = "response"
      THEN IF ParseResponse(outcome.data).raises
             THEN Parsed(None) ELSE ParseResponse(outcome.data)
      ELSE Parsed(None)

\* get_embedding_from_ollama of ragProxy.py (lines 40-61): the value under
\* "embedding" of a dictionary; "'embedding' in result" is false for the
\* lists of the model and for null, raises for a number, and the subscript
\* raises for a string; every exception is caught (line 59)
QueryClient(outcome) ==
    IF /\ outcome.kind = "response"
       /\ outcome.data.type = "dict"
       /\ "embedding" \in DOMAIN outcome.data.fields
      THEN Parsed(PyValue(outcome.data.fields.embedding))
      ELSE Parsed(None)

\* the bodies the service answers with
ResponseBodies ==
    {JDict([embedding |-> JVector(<<1, 2>>)]),
     JDict([embeddings |-> JList(<<JVector(<<1, 2>>), JVector(<<3>>)>>)]),
     JList(<<JDict([embedding |-> JVector(<<1, 2>>)])>>),
     JList(<<JDict([embeddings |-> JList(<<JVector(<<1, 2>>), JVector(<<3>>)>>)])>>),
     JVector(<<1, 2>>),
     JDict([embedding |-> JVector(<<1, 2>>),
            embeddings |-> JList(<<JVector(<<3>>)>>)]),
     JDict([error |-> JStr("no model")]),
     JDict(<<>>),
     JDict([embedding |-> JNull]),
     JDict([embedding |-> JStr("abc")]),
     JDict([embedding |-> JVector(<<>>)]),
     JDict([embeddings |-> JVector(<<>>)]),
     JDict([embeddings |-> JVector(<<1, 2>>)]),
     JDict([embeddings |-> JNum(5)]),
     JDict([embeddings |-> JNull]),
     JList(<<>>),
     JList(<<JStr("a")>>),
     JList(<<JDict([error |-> JStr("no model")])>>),
     JStr("embedding"),
     JNull}

Outcomes == {Response(d) : d \in ResponseBodies} \cup Failures

DocTexts == TextsUpTo(MaxDocLines) \cup {<<" ">>, <<"", " ">>}

\* lines 135-147: the empty-input check, then the request is sent
DocStart ==
    /\ dpc = "start"
    /\ IF IsBlankText(text)
         THEN /\ dret' = None
              /\ dpc' = "returned"
              /\ UNCHANGED dsent
         ELSE /\ dsent' = Append(dsent, text)
              /\ dpc' = "calling"
              /\ UNCHANGED dret
    /\ UNCHANGED cres

\* lines 142-160: the client returns (or raises) and the result is built
DocCallReturns(outcome) ==
    /\ dpc = "calling"
    /\ dpc' = "returned"
    /\ dret' = IF DocumentClient(outcome).raises THEN Raised
               ELSE IF DocumentClient(outcome).embedding = None THEN None
               ELSE [text |-> text, embedding |-> DocumentClient(outcome).embedding]
    /\ UNCHANGED <<dsent, cres>>

\* one request, as each of the three clients handles its outcome
ClientCall(outcome) ==
    /\ dpc = "returned"
    /\ cres = None
    /\ cres' = [outcome |-> outcome,
                document |-> DocumentClient(outcome),
                chunk |-> ChunkClient(outcome),
                query |-> QueryClient(outcome)]
    /\ UNCHANGED <<dpc, dret, dsent>>

\* generate_chunk_embeddings on a text and then, on the same text,
\* generate_document_embedding: the two tools of the ingestion, run one after
\* the other
EmbedInit ==
    /\ text \in EmbedTexts
    /\ chunk_size \in 1..2
    /\ chunk_overlap \in 0..1
    /\ chunks = <<>>
    /\ current_line_index = 0
    /\ cpc = "idle"
    /\ max_workers \in 1..MaxWorkers
    /\ include_text \in BOOLEAN
    /\ fut = <<>>
    /\ collected = {}
    /\ chunk_embeddings = <<>>
    /\ gpc = "start"
    /\ returned = NotReturned
    /\ reordered = FALSE
    /\ sent = <<>>
    /\ StoreIdle
    /\ QueryIdle
    /\ dpc = "start"
    /\ dret = NotReturned
    /\ dsent = <<>>
    /\ cres = None
    /\ MainIdle

\* the steps the two tools take by themselves
EmbedLocalStep ==
    \/ GenStart /\ UNCHANGED <<storeVars, queryVars, docVars, mainVars>>
    \/ \E p \in 1..MaxEmbedLines : WorkerTake(p) /\ UNCHANGED <<storeVars, queryVars, docVars, mainVars>>
    \/ \E p \in 1..MaxEmbedLines : Collect(p) /\ UNCHANGED <<storeVars, queryVars, docVars, mainVars>>
    \/ ExecutorExit /\ UNCHANGED <<storeVars, queryVars, docVars, mainVars>>
    \/ /\ gpc = "returned"
       /\ DocStart
       /\ UNCHANGED <<chunkVars, embedVars, storeVars, queryVars, mainVars>>

\* the end of a request of the chunk client
ChunkCallEnds ==
    \E p \in 1..MaxEmbedLines : \E ok \in BOOLEAN :
        WorkerFinish(p, ok) /\ UNCHANGED <<storeVars, queryVars, docVars, mainVars>>

\* the end of the request of the document client
DocCallEnds ==
    \E outcome \in Outcomes :
        DocCallReturns(outcome)
        /\ UNCHANGED <<chunkVars, embedVars, storeVars, queryVars, mainVars>>

EmbedNext ==
    \/ EmbedLocalStep
    \/ ChunkCallEnds
    \/ DocCallEnds

SpecEmbed == EmbedInit /\ [][EmbedNext]_vars

\* the timeout each client gives urlopen: 60 seconds in
\* generate_chunk_embeddings.py (lines 155 and 195), none in
\* generate_document_embedding.py (line 71), where the socket then blocks
\* until the service answers or the connection breaks
ChunkCallTimeout == [seconds |-> 60]
DocCallTimeout == None

\* The two tools against an embedding service that may never answer: the
\* tools' own steps are taken when they can be, and a request is sure to end
\* only if its urlopen has a timeout
SpecEmbedLive ==
    /\ EmbedInit
    /\ [][EmbedNext]_vars
    /\ WF_vars(EmbedLocalStep)
    /\ WF_vars(ChunkCallTimeout # None /\ ChunkCallEnds)
    /\ WF_vars(DocCallTimeout # None /\ DocCallEnds)

DocInit ==
    /\ text \in DocTexts
    /\ chunk_size = 1
    /\ chunk_overlap = 0
    /\ chunks = <<>>
    /\ current_line_index = 0
    /\ cpc = "idle"
    /\ EmbedIdle
    /\ StoreIdle
    /\ QueryIdle
    /\ dpc = "start"
    /\ dret = NotReturned
    /\ dsent = <<>>
    /\ cres = None
    /\ MainIdle

DocNext ==
    \/ DocStart /\ UNCHANGED <<chunkVars, embedVars, storeVars, queryVars, mainVars>>
    \/ \E outcome \in Outcomes :
          DocCallReturns(outcome)
          /\ UNCHANGED <<chunkVars, embedVars, storeVars, queryVars, mainVars>>
    \/ \E outcome \in Outcomes :
          ClientCall(outcome)
          /\ UNCHANGED <<chunkVars, embedVars, storeVars, queryVars, mainVars>>

SpecDoc == DocInit /\ [][DocNext]_vars

\* ------------------------------------------------------------------------
\* main of generate_chunk_embeddings.py: validation, reading the content
\* file, generate_chunk_embeddings, exit code
\*
\* The file system is the set of directories that exist; the lines appended
\* to the log file are not modelled.
\* ------------------------------------------------------------------------
ChunkSizeLimit == 10000    \* "chunk-size is too large (max 10000)"
MaxWorkersLimit == 50      \* "max-workers is too large (max 50)"

\* os.path.dirname(log_path) of the log paths of the model
LogDir(log_path) ==
    CASE log_path = "logs/run.log" -> "logs"
      [] log_path = "new/run.log" -> "new"
      [] log_path = "blocked/run.log" -> "blocked"
      [] OTHER -> ""

\* os.makedirs(log_dir, exist_ok=True) fails on the directory "blocked"
CanCreate(dir) == dir # "blocked"

\* validate_parameters, lines 28-77: the error messages
ValidationErrors(args, dirs) ==
    (IF args.content_file = "nopath" THEN {"Content file path is required"}
     ELSE IF args.content_file = "missing" THEN {"Content file does not exist"}
     ELSE IF args.content_file = "directory" THEN {"Content file path is not a file"}
     ELSE IF args.content_file = "empty" THEN {"Content file is empty"}
     ELSE {})
    \cup (IF args.chunk_size <= 0 THEN {"chunk-size must be positive"}
          ELSE IF args.chunk_size > ChunkSizeLimit THEN {"chunk-size is too large"}
          ELSE {})
    \cup (IF args.chunk_overlap < 0 THEN {"chunk-overlap cannot be negative"}
          ELSE IF args.chunk_overlap >= args.chunk_size
            THEN {"chunk-overlap must be less than chunk-size"}
          ELSE {})
    \cup (IF args.max_workers <= 0 THEN {"max-workers must be positive"}
          ELSE IF args.max_workers > MaxWorkersLimit THEN {"max-workers is too large"}
          ELSE {})
    \cup (IF args.model \in {"", " "} THEN {"model name cannot be empty"} ELSE {})
    \cup (IF args.base_url \in {"", " "} THEN {"base-url cannot be empty"}
          ELSE IF args.base_url \notin {"http://h", "https://h"}
            THEN {"base-url must start with http:// or https://"}
          ELSE {})
    \cup (IF /\ args.log_path # ""
             /\ LogDir(args.log_path) # ""
             /\ LogDir(args.log_path) \notin dirs
             /\ ~CanCreate(LogDir(args.log_path))
            THEN {"Cannot create log directory"} ELSE {})

\* validate_parameters, lines 68-75: the directory of the log file is created
DirsAfterValidation(args, dirs) ==
    IF /\ args.log_path # ""
       /\ LogDir(args.log_path) # ""
       /\ LogDir(args.log_path) \notin dirs
       /\ CanCreate(LogDir(args.log_path))
      THEN dirs \cup {LogDir(args.log_path)}
      ELSE dirs

\* the text read from the content files of the model
FileText(content_file) ==
    IF content_file = "blank" THEN <<" ", "">> ELSE <<"a", "b", "c">>

\* lines 393-401: validation; any error ends the process with exit code 1
MainValidate ==
    /\ mpc = "validate"
    /\ merrors' = ValidationErrors(margs, mfs)
    /\ mfs' = DirsAfterValidation(margs, mfs)
    /\ IF ValidationErrors(margs, mfs) # {}
         THEN mpc' = "exited" /\ mexit' = 1
         ELSE mpc' = "read" /\ UNCHANGED mexit
    /\ UNCHANGED margs

\* lines 403-433: the file is read; a file that is not UTF-8 or holds no
\* text ends the process with exit code 1, otherwise
\* generate_chunk_embeddings is called
MainRead ==
    /\ mpc = "read"
    /\ IF margs.content_file = "binary" \/ IsBlankText(FileText(margs.content_file))
         THEN /\ mpc' = "exited"
              /\ mexit' = 1
              /\ UNCHANGED <<chunkVars, embedVars>>
         ELSE /\ mpc' = "generate"
              /\ text' = FileText(margs.content_file)
              /\ chunk_size' = margs.chunk_size
              /\ chunk_overlap' = margs.chunk_overlap
              /\ max_workers' = margs.max_workers
              /\ include_text' = ~margs.exclude_text
              /\ gpc' = "start"
              /\ UNCHANGED <<chunks, current_line_index, cpc, fut, collected,
                             chunk_embeddings, returned, reordered, sent, mexit>>
    /\ UNCHANGED <<margs, mfs, merrors>>

\* lines 435-442
MainExit ==
    /\ mpc = "generate"
    /\ gpc = "returned"
    /\ mpc' = "exited"
    /\ mexit' = IF returned = None THEN 1 ELSE 0
    /\ UNCHANGED <<margs, mfs, merrors>>

\* the directories that exist when the tool starts
InitialDirs == {"logs"}

MainArgs ==
    [content_file : {"nopath", "missing", "directory", "empty", "blank", "binary", "text"},
     chunk_size : {0, 1, 2, ChunkSizeLimit + 1},
     chunk_overlap : {-1, 0, 1},
     max_workers : {0, 2, MaxWorkersLimit + 1},
     model : {" ", "m"},
     base_url : {"", "ftp://h", "http://h"},
     log_path : {"", "run.log", "logs/run.log", "new/run.log", "blocked/run.log"},
     exclude_text : BOOLEAN]

MainInit ==
    /\ text = <<"">>
    /\ chunk_size = 1
    /\ chunk_overlap = 0
    /\ chunks = <<>>
    /\ current_line_index = 0
    /\ cpc = "idle"
    /\ EmbedIdle
    /\ StoreIdle
    /\ QueryIdle
    /\ DocIdle
    /\ margs \in MainArgs
    /\ mfs = InitialDirs
    /\ mpc = "validate"
    /\ mexit = None
    /\ merrors = {}

MainNext ==
    \/ MainValidate
         /\ UNCHANGED <<chunkVars, embedVars, storeVars, queryVars, docVars>>
    \/ MainRead /\ UNCHANGED <<storeVars, queryVars, docVars>>
    \/ MainExit
         /\ UNCHANGED <<chunkVars, embedVars, storeVars, queryVars, docVars>>
    \/ GenStart /\ UNCHANGED <<storeVars, queryVars, docVars, mainVars>>
    \/ \E p \in 1..MaxEmbedLines :
          WorkerTake(p) /\ UNCHANGED <<storeVars, queryVars, docVars, mainVars>>
    \/ \E p \in 1..MaxEmbedLines : \E ok \in BOOLEAN :
          WorkerFinish(p, ok) /\ UNCHANGED <<storeVars, queryVars, docVars, mainVars>>
    \/ \E p \in 1..MaxEmbedLines :
          Collect(p) /\ UNCHANGED <<storeVars, queryVars, docVars, mainVars>>
    \/ ExecutorExit /\ UNCHANGED <<storeVars, queryVars, docVars, mainVars>>

SpecMain == MainInit /\ [][MainNext]_vars

\* ------------------------------------------------------------------------
\* The vector store (ChromaDB, as store_embeddings.py and ragProxy.py use it)
\*
\* A collection is the sequence of its records in insertion order; a record
\* is [id, document, embedding, metadata].  Ids are unique in a collection:
\* add keeps the stored record of an id that already exists and adds the
\* others; delete of an absent id or of a filter nothing matches changes
\* nothing.  An embedding is [vector |-> point], a point on a line; the
\* cosine distance of two embeddings is the distance of their points, in
\* units of 1/Grid.
\* ------------------------------------------------------------------------
Grid == 10             \* resolution of distances, similarities and weights

\* client.get_or_create_collection(name)
GetOrCreateCollection(db, name) ==
    IF name \in DOMAIN db THEN db ELSE (name :> <<>>) @@ db

HasId(coll, id) == \E i \in 1..Len(coll) : coll[i].id = id

\* collection.add(...): the records whose id is not stored yet are appended
RECURSIVE CollectionAdd(_, _)
CollectionAdd(coll, records) ==
    IF records = <<>> THEN coll
    ELSE CollectionAdd(IF HasId(coll, Head(records).id)
                         THEN coll ELSE Append(coll, Head(records)),
                       Tail(records))

\* collection.delete(ids=[id])
CollectionDeleteId(coll, id) ==
    LET Keep(rec) == rec.id # id IN SelectSeq(coll, Keep)

\* collection.delete(where={"source": source_path})
CollectionDeleteWhereSource(coll, source_path) ==
    LET Keep(rec) == ~("source" \in DOMAIN rec.metadata
                       /\ rec.metadata.source = source_path)
    IN SelectSeq(coll, Keep)

\* ------------------------------------------------------------------------
\* store_embeddings_in_chromadb
\* ------------------------------------------------------------------------

\* str.lower() on the collection names of the model
Lower(name) ==
    CASE name = "Default" -> "default"
      [] name = "Docs" -> "docs"
      [] OTHER -> name

\* unicodedata.normalize('NFKD', text), line by line: U+00E9 decomposes to
\* e + U+0301, the ligature U+FB01 folds to f i; ASCII is unchanged
NFKD(line) ==
    CASE line = "caf{U+00E9}" -> "cafe{U+0301}"
      [] line = "{U+FB01}n" -> "fin"
      [] OTHER -> line
normalize_text(t) == [i \in 1..Len(t) |-> NFKD(t[i])]

\* collection_names_to_use (lines 74-76)
CollectionNamesExact(collection_name) ==
    IF collection_name # "default" THEN <<"default", collection_name>> ELSE <<"default">>
CollectionNamesToUse(collection_name) ==
    IF collection_name # "" /\ Lower(collection_name) # "default"
      THEN <<"default", collection_name>>
      ELSE <<"default">>

DocCollectionName(coll_name) == coll_name \o "_documents"
ChunksCollectionName(coll_name) == coll_name \o "_chunks"

\* doc_id = f"{document_id}_chunk_{chunk_id}" (line 147)
ChunkKey(document_id, chunk_id) == document_id \o "_chunk_" \o ToString(chunk_id)

\* the record of the document (lines 122-136); created_at and duration are
\* clock readings and are left out
DocRecord(req, coll_name) ==
    [id |-> req.document_id,
     document |-> normalize_text(req.document_embedding.text),
     embedding |-> req.document_embedding.embedding,
     metadata |-> [source |-> req.source_path, collection |-> coll_name]]

\* the record of one chunk (lines 146-167); chunk_data.get(key, 1)
GetOr(rec, key, default) == IF key \in DOMAIN rec THEN rec[key] ELSE default
ChunkRecord(req, coll_name, chunk_data) ==
    LET start == GetOr(chunk_data, "start_line", 1)
        end == GetOr(chunk_data, "end_line", 1)
    IN [id |-> ChunkKey(req.document_id, chunk_data.chunk_id),
        document |-> normalize_text(chunk_data.text),
        embedding |-> chunk_data.embedding,
        metadata |-> [source |-> req.source_path,
                      collection |-> coll_name,
                      source_id |-> req.document_id,
                      chunk_id |-> chunk_data.chunk_id,
                      total_chunks |-> Len(req.chunks_data),
                      start_line |-> start,
                      end_line |-> end,
                      line_range |-> ToString(start) \o "-" \o ToString(end)]]
ChunkRecords(req, coll_name) ==
    [i \in 1..Len(req.chunks_data) |-> ChunkRecord(req, coll_name, req.chunks_data[i])]

\* the subscripts of lines 132-133 and 146-165 raise KeyError on a missing key
DocEmbeddingComplete(document_embedding) ==
    {"text", "embedding"} \subseteq DOMAIN document_embedding
ChunksComplete(chunks_data) ==
    \A i \in 1..Len(chunks_data) :
        {"chunk_id", "text", "embedding"} \subseteq DOMAIN chunks_data[i]

CollName(p) == up[p].names[up[p].k]

\* lines 63-76: the client is set up and collection_names_to_use computed
UpsertBegin(p, req) ==
    /\ up[p].pc \in {"idle", "done"}
    /\ ingests < MaxIngest
    /\ ingests' = ingests + 1
    /\ prev' = IF up[p].pc = "done"
                 THEN [req |-> up[p].req, ok |-> up[p].ok]
                 ELSE prev
    /\ up' = [up EXCEPT ![p] =
                [pc |-> "get_documents", req |-> req,
                 names |-> CollectionNamesToUse(req.collection_name),
                 k |-> 1, ok |-> FALSE, before |-> store, failed_at |-> 0,
                 deletes_failed |-> 0]]
    /\ UNCHANGED store

\* lines 81-89
GetDocCollection(p) ==
    /\ up[p].pc = "get_documents"
    /\ store' = GetOrCreateCollection(store, DocCollectionName(CollName(p)))
    /\ up' = [up EXCEPT ![p].pc = "get_chunks"]
    /\ UNCHANGED <<prev, ingests>>

\* lines 91-99
GetChunksCollection(p) ==
    /\ up[p].pc = "get_chunks"
    /\ store' = GetOrCreateCollection(store, ChunksCollectionName(CollName(p)))
    /\ up' = [up EXCEPT ![p].pc = "delete_id"]
    /\ UNCHANGED <<prev, ingests>>

\* try: delete ... except: pass (lines 102-106, 108-112, 115-119): whether
\* the delete raised or not, the call goes on with the next statement
AfterDeleteAborting(call, next_pc, raises) ==
    IF raises
      THEN [call EXCEPT !.pc = "done", !.ok = FALSE, !.deletes_failed = @ + 1]
      ELSE [call EXCEPT !.pc = next_pc]
AfterDelete(call, next_pc, raises) ==
    IF raises
      THEN [call EXCEPT !.pc = next_pc, !.deletes_failed = @ + 1]
      ELSE [call EXCEPT !.pc = next_pc]

\* lines 102-106; a delete that raises (raises) deletes nothing
DeleteDocById(p, raises) ==
    /\ up[p].pc = "delete_id"
    /\ store' = IF raises THEN store
                ELSE [store EXCEPT ![DocCollectionName(CollName(p))] =
                         CollectionDeleteId(@, up[p].req.document_id)]
    /\ up' = [up EXCEPT ![p] = AfterDelete(@, "delete_doc_source", raises)]
    /\ UNCHANGED <<prev, ingests>>

\* lines 108-112
DeleteDocBySource(p, raises) ==
    /\ up[p].pc = "delete_doc_source"
    /\ store' = IF raises THEN store
                ELSE [store EXCEPT ![DocCollectionName(CollName(p))] =
                         CollectionDeleteWhereSource(@, up[p].req.source_path)]
    /\ up' = [up EXCEPT ![p] = AfterDelete(@, "delete_chunk_source", raises)]
    /\ UNCHANGED <<prev, ingests>>

\* lines 115-119
DeleteChunksBySource(p, raises) ==
    /\ up[p].pc = "delete_chunk_source"
    /\ store' = IF raises THEN store
                ELSE [store EXCEPT ![ChunksCollectionName(CollName(p))] =
                         CollectionDeleteWhereSource(@, up[p].req.source_path)]
    /\ up' = [up EXCEPT ![p] = AfterDelete(@, "add_document", raises)]
    /\ UNCHANGED <<prev, ingests>>

\* lines 183-185: an exception ends the call with (False, []); the loop over
\* the collection names is left and nothing is undone
FailedCallGoesOn(call) ==
    IF call.k < Len(call.names)
      THEN [call EXCEPT !.pc = "get_documents", !.k = @ + 1]
      ELSE [call EXCEPT !.pc = "done", !.ok = FALSE]
FailedCall(call) == [call EXCEPT !.pc = "done", !.ok = FALSE]

\* lines 121-137; a KeyError, or an exception of doc_collection.add
\* (raises), ends the call
AddDocument(p, raises) ==
    /\ up[p].pc = "add_document"
    /\ IF DocEmbeddingComplete(up[p].req.document_embedding) /\ ~raises
         THEN /\ store' = [store EXCEPT ![DocCollectionName(CollName(p))] =
                             CollectionAdd(@, <<DocRecord(up[p].req, CollName(p))>>)]
              /\ up' = [up EXCEPT ![p].pc = "add_chunks"]
         ELSE /\ up' = [up EXCEPT ![p] = FailedCall([@ EXCEPT !.failed_at = up[p].k])]
              /\ UNCHANGED store
    /\ UNCHANGED <<prev, ingests>>

\* lines 139-181: the chunk records are built and added, then the loop goes
\* on to the next collection name or the call returns (True, names); a
\* KeyError, or an exception of chunks_collection.add (raises), ends the call
AddChunks(p, raises) ==
    /\ up[p].pc = "add_chunks"
    /\ IF ChunksComplete(up[p].req.chunks_data) /\ ~raises
         THEN /\ store' = [store EXCEPT ![ChunksCollectionName(CollName(p))] =
                             CollectionAdd(@, ChunkRecords(up[p].req, CollName(p)))]
              /\ IF up[p].k < Len(up[p].names)
                   THEN up' = [up EXCEPT ![p].pc = "get_documents", ![p].k = @ + 1]
                   ELSE up' = [up EXCEPT ![p].pc = "done", ![p].ok = TRUE]
         ELSE /\ up' = [up EXCEPT ![p] = FailedCall([@ EXCEPT !.failed_at = up[p].k])]
              /\ UNCHANGED store
    /\ UNCHANGED <<prev, ingests>>

\* ---- the arguments the calls are made with ----
SourceA == <<"/", "a", "/", "x">>
SourceB == <<"c", "\\", "y">>

\* chunk embeddings as generate_chunk_embeddings returns them for a text
\* chunked line by line, chunk p embedded at point first + p - 1
ChunksOf(t, first) ==
    LET cs == chunk_text(t, 1, 0) IN
    [p \in 1..Len(cs) |-> ChunkEmbedding(p, cs[p], [vector |-> first + p - 1], TRUE)]

ContentA ==
    [document_embedding |-> [text |-> <<"caf{U+00E9}", "b">>, embedding |-> [vector |-> 1]],
     chunks_data |-> ChunksOf(<<"caf{U+00E9}", "b">>, 2)]
ContentB ==
    [document_embedding |-> [text |-> <<"z">>, embedding |-> [vector |-> 5]],
     chunks_data |-> ChunksOf(<<"z">>, 6)]

\* the chunks as generate_chunk_embeddings returns them with
\* include_text=False (no "text" entry)
ContentNoText ==
    [document_embedding |-> ContentB.document_embedding,
     chunks_data |->
        [p \in 1..Len(ContentB.chunks_data) |->
            ChunkEmbedding(p, [start_line |-> p, end_line |-> p],
                           ContentB.chunks_data[p].embedding, FALSE)]]
\* a document embedding without its "embedding" entry
ContentNoEmbedding ==
    [document_embedding |-> [text |-> <<"z">>],
     chunks_data |-> ContentB.chunks_data]

Request(content, source_path, document_id, collection_name) ==
    [document_embedding |-> content.document_embedding,
     chunks_data |-> content.chunks_data,
     source_path |-> source_path,
     document_id |-> document_id,
     collection_name |-> collection_name]

\* every collection name with one document; the document with other
\* content and under another source path; a second document; and the two
\* incomplete inputs
Requests ==
    {Request(ContentA, SourceA, "d1", n) : n \in {"default", "Default", "docs", ""}}
    \cup {Request(ContentB, src, "d1", "docs") : src \in {SourceA, SourceB}}
    \cup {Request(ContentB, SourceB, "d2", "docs")}
    \cup {Request(c, SourceA, "d1", "docs") : c \in {ContentNoText, ContentNoEmbedding}}

\* ------------------------------------------------------------------------
\* query_chroma (ragProxy.py)
\*
\* Similarities and the threshold are in units of 1/Grid, the weights in
\* units of 1/Grid, adjusted similarities in units of 1/Grid^2.
\* ------------------------------------------------------------------------
Abs(x) == IF x < 0 THEN -x ELSE x

\* the cosine distance of two stored embeddings
Distance(e1, e2) == Abs(e1.vector - e2.vector)

\* what the index reports of a record: include=[documents, metadatas, distances]
Hit(rec, query_embedding) ==
    [document |-> rec.document, metadata |-> rec.metadata,
     distance |-> Distance(rec.embedding, query_embedding)]

\* collection.query(query_embeddings, n_results): the n_results nearest
\* records (all of them if there are fewer), nearest first.  The order of
\* records at the same distance, and which of them make the cut, is the
\* index's choice: every answer the index may give.
IndexAnswers(coll, query_embedding, n_results) ==
    LET k == Min(n_results, Len(coll))
        d(i) == Distance(coll[i].embedding, query_embedding)
        Picks == {s \in [1..k -> 1..Len(coll)] :
                    /\ \A i, j \in 1..k : i # j => s[i] # s[j]
                    /\ \A j \in 1..(k - 1) : d(s[j]) <= d(s[j + 1])
                    /\ \A i \in 1..Len(coll) :
                          (\A j \in 1..k : s[j] # i) =>
                              \A j \in 1..k : d(s[j]) <= d(i)}
    IN  {[j \in 1..k |-> Hit(coll[s[j]], query_embedding)] : s \in Picks}

\* lines 98 and 134: the collections query_chroma asks the client for
QueryDocCollectionName == "document_collection"
QueryChunksCollectionName == "document_chunks_collection"

\* lines 96-103 and 132-139: get_collection raises when the collection does
\* not exist, and the query itself may raise
IndexRaises(db, name, query_raises) == name \notin DOMAIN db \/ query_raises

\* lines 127-128 and 173-174: the exception of an index is caught, a warning
\* is printed and the index contributes nothing; it does not reach the
\* handler of line 204
IndexFailureAbortsAlways(failed) == failed # {}
IndexFailureAborts(failed) == FALSE

QueryIndex(db, name, query_embedding, n_results, query_raises) ==
    IF IndexRaises(db, name, query_raises)
      THEN {<<>>}
      ELSE IndexAnswers(db[name], query_embedding, n_results)

\* the indexes a mode queries (lines 95 and 131)
QueriedIndexes(query_mode) ==
    (IF query_mode \in {"documents", "both"} THEN {"documents"} ELSE {})
    \cup (IF query_mode \in {"chunks", "both"} THEN {"chunks"} ELSE {})

\* the queried indexes whose query raises
FailedIndexes(db, query_mode, raising) ==
    {x \in QueriedIndexes(query_mode) :
        IndexRaises(db, IF x = "documents" THEN QueryDocCollectionName
                                           ELSE QueryChunksCollectionName,
                    x \in raising)}

\* line 83: "if not query_embedding" (None or an empty list)
EmptyEmbedding == [empty |-> TRUE]
NoQueryEmbedding(e) == e = None \/ e = EmptyEmbedding

\* line 84: the return when the query could not be embedded
EmbeddingFailureResponseEmpty(a) ==
    [results |-> <<>>, count |-> 0, document_names |-> {}]
EmbeddingFailureResponse(a) ==
    [error |-> "Failed to get embedding for query"]

\* lines 107 and 143: similarity = 1 - dist
Similarity(distance) == Grid - distance

\* lines 109 and 146
PassesThresholdStrict(similarity, threshold) == similarity > threshold
PassesThreshold(similarity, threshold) == similarity >= threshold

\* lines 116-118 and 153-155
AdjustedSimilarity(similarity, query_mode, weight) ==
    IF query_mode = "both" THEN similarity * weight ELSE similarity * Grid

SetMax(S) == CHOOSE x \in S : \A y \in S : y <= x
Contains(path, sep) == \E i \in 1..Len(path) : path[i] = sep
\* path.split(sep)[-1]
LastSegment(path, sep) ==
    LET last == SetMax({0} \cup {i \in 1..Len(path) : path[i] = sep})
    IN  SubSeq(path, last + 1, Len(path))

Unknown == <<"u", "n", "k", "n", "o", "w", "n">>

\* lines 110-113 and 147-150: the base name of the metadata's source
FullDocName(metadata) ==
    LET doc_name == IF "source" \in DOMAIN metadata
                      THEN metadata.source ELSE Unknown
    IN  IF Contains(doc_name, "/") THEN LastSegment(doc_name, "/")
        ELSE IF Contains(doc_name, "\\") THEN LastSegment(doc_name, "\\")
        ELSE doc_name

\* lines 159-164: line_range is filled in from start_line and end_line
UpdatedMetadata(metadata) ==
    IF "line_range" \in DOMAIN metadata THEN metadata
    ELSE IF {"start_line", "end_line"} \subseteq DOMAIN metadata
      THEN ("line_range" :> (ToString(metadata.start_line) \o "-"
                               \o ToString(metadata.end_line))) @@ metadata
      ELSE ("line_range" :> "unknown") @@ metadata

\* lines 120-126
DocResult(hit, query_mode, document_weight) ==
    [document |-> hit.document,
     metadata |-> hit.metadata,
     similarity |-> Similarity(hit.distance),
     adjusted_similarity |->
         AdjustedSimilarity(Similarity(hit.distance), query_mode, document_weight),
     is_chunk |-> FALSE]

\* lines 166-172
ChunkResult(hit, query_mode, chunk_weight) ==
    [document |-> hit.document,
     metadata |-> UpdatedMetadata(hit.metadata),
     similarity |-> Similarity(hit.distance),
     adjusted_similarity |->
         AdjustedSimilarity(Similarity(hit.distance), query_mode, chunk_weight),
     is_chunk |-> TRUE]

\* lines 108-109 and 144-146: the hits that pass the threshold, in the
\* index's order
PassingHits(hits, threshold) ==
    LET Passes(hit) == PassesThreshold(Similarity(hit.distance), threshold)
    IN  SelectSeq(hits, Passes)

DocResultsList(hits, a) ==
    LET ph == PassingHits(hits, a.threshold)
    IN  [i \in 1..Len(ph) |-> DocResult(ph[i], a.query_mode, a.document_weight)]

ChunkResultsList(hits, a) ==
    LET ph == PassingHits(hits, a.threshold)
    IN  [i \in 1..Len(ph) |-> ChunkResult(ph[i], a.query_mode, a.chunk_weight)]

\* lines 179-184
AllResults(query_mode, docs, chks) ==
    IF query_mode = "documents" THEN docs
    ELSE IF query_mode = "chunks" THEN chks
    ELSE docs \o chks

\* lines 188-191: the key of sorted
SortKeyRaw(result, query_mode) == result.similarity * Grid
SortKey(result, query_mode) ==
    IF query_mode = "both" THEN result.adjusted_similarity
    ELSE result.similarity * Grid

\* sorted(..., reverse=True): descending, equal keys keep their order
RECURSIVE SortedFrom(_, _, _)
SortedFrom(items, query_mode, acc) ==
    IF items = <<>> THEN acc
    ELSE LET x == Head(items)
             pos == Cardinality({j \in 1..Len(acc) :
                        SortKey(acc[j], query_mode) >= SortKey(x, query_mode)})
         IN  SortedFrom(Tail(items), query_mode,
                        SubSeq(acc, 1, pos) \o <<x>> \o SubSeq(acc, pos + 1, Len(acc)))

SortedTiesReversed(items, query_mode) ==
    SortedFrom([i \in 1..Len(items) |-> items[Len(items) + 1 - i]], query_mode, <<>>)
Sorted(items, query_mode) == SortedFrom(items, query_mode, <<>>)

\* lines 193-194
TrimNever(results, n_results) == results
Trim(results, n_results) ==
    IF Len(results) > n_results THEN SubSeq(results, 1, n_results) ELSE results

\* lines 196-198
RemoveAdjustedKept(result) == result
RemoveAdjusted(result) ==
    [f \in DOMAIN result \ {"adjusted_similarity"} |-> result[f]]

\* lines 186-203
QueryResponse(a, docs, chks) ==
    LET processed == Trim(Sorted(AllResults(a.query_mode, docs, chks), a.query_mode),
                          a.n_results)
    IN  [results |-> [i \in 1..Len(processed) |-> RemoveAdjusted(processed[i])],
         count |-> Len(processed),
         document_names |->
             {FullDocName(docs[i].metadata) : i \in 1..Len(docs)}
             \cup {FullDocName(chks[i].metadata) : i \in 1..Len(chks)}]

\* one call of query_chroma, from the embedding of the query to the return;
\* raising: the indexes whose query raises although the collection exists
QueryChroma(a, raising) ==
    /\ qret = NotReturned
    /\ qargs' = a
    /\ qat' = [ingests |-> ingests,
               quiescent |-> \A p \in DOMAIN up : up[p].pc \in {"idle", "done"}]
    /\ IF NoQueryEmbedding(a.query_embedding)
         THEN /\ qret' = EmbeddingFailureResponse(a)
              /\ qread' = {}
              /\ qfailed' = {}
              /\ UNCHANGED <<doc_results, chunk_results, doc_results_list,
                             chunk_results_list>>
         ELSE /\ \E dh \in IF "documents" \in QueriedIndexes(a.query_mode)
                             THEN QueryIndex(store, QueryDocCollectionName,
                                             a.query_embedding, a.n_results,
                                             "documents" \in raising)
                             ELSE {<<>>} :
                 \E ch \in IF "chunks" \in QueriedIndexes(a.query_mode)
                             THEN QueryIndex(store, QueryChunksCollectionName,
                                             a.query_embedding, a.n_results,
                                             "chunks" \in raising)
                             ELSE {<<>>} :
                    /\ doc_results' = dh
                    /\ chunk_results' = ch
                    /\ doc_results_list' = DocResultsList(dh, a)
                    /\ chunk_results_list' = ChunkResultsList(ch, a)
                    /\ qret' = IF IndexFailureAborts(
                                      FailedIndexes(store, a.query_mode, raising))
                                 THEN [error |-> "Error querying ChromaDB"]
                                 ELSE QueryResponse(a, DocResultsList(dh, a),
                                                    ChunkResultsList(ch, a))
              /\ qfailed' = FailedIndexes(store, a.query_mode, raising)
              /\ qread' =
                   (IF a.query_mode \in {"documents", "both"}
                      THEN {QueryDocCollectionName} ELSE {})
                   \cup (IF a.query_mode \in {"chunks", "both"}
                           THEN {QueryChunksCollectionName} ELSE {})

QueryArgs(query_embedding, n_results, threshold, query_mode, weights) ==
    [query_embedding |-> query_embedding, n_results |-> n_results,
     threshold |-> threshold, query_mode |-> query_mode,
     chunk_weight |-> weights[1], document_weight |-> weights[2]]

QueryModes == {"documents", "chunks", "both"}

\* the queries made of the store the ingestions fill: every stored vector is
\* within reach (threshold at the least similarity there is, n_results at
\* least the number of records of a collection)
WideQueries ==
    {QueryArgs([vector |-> 1], 2 * MaxIngest, -Grid, m, <<6, 4>>) : m \in {"both"}}

Init ==
    /\ text = <<"">>
    /\ chunk_size = 1
    /\ chunk_overlap = 0
    /\ chunks = <<>>
    /\ current_line_index = 0
    /\ cpc = "idle"
    /\ EmbedIdle
    /\ StoreIdle
    /\ QueryIdle
    /\ DocIdle
    /\ MainIdle

Next ==
    \/ \E p \in DOMAIN up : \E req \in Requests :
          UpsertBegin(p, req) /\ UNCHANGED <<chunkVars, embedVars, queryVars, docVars, mainVars>>
    \/ \E p \in DOMAIN up : GetDocCollection(p) /\ UNCHANGED <<chunkVars, embedVars, queryVars, docVars, mainVars>>
    \/ \E p \in DOMAIN up : GetChunksCollection(p) /\ UNCHANGED <<chunkVars, embedVars, queryVars, docVars, mainVars>>
    \/ \E p \in DOMAIN up : DeleteDocById(p, FALSE) /\ UNCHANGED <<chunkVars, embedVars, queryVars, docVars, mainVars>>
    \/ \E p \in DOMAIN up : DeleteDocBySource(p, FALSE) /\ UNCHANGED <<chunkVars, embedVars, queryVars, docVars, mainVars>>
    \/ \E p \in DOMAIN up : DeleteChunksBySource(p, FALSE) /\ UNCHANGED <<chunkVars, embedVars, queryVars, docVars, mainVars>>
    \/ \E p \in DOMAIN up : \E raises \in BOOLEAN :
          AddDocument(p, raises) /\ UNCHANGED <<chunkVars, embedVars, queryVars, docVars, mainVars>>
    \/ \E p \in DOMAIN up : \E raises \in BOOLEAN :
          AddChunks(p, raises) /\ UNCHANGED <<chunkVars, embedVars, queryVars, docVars, mainVars>>
    \/ \E a \in WideQueries :
          QueryChroma(a, {}) /\ UNCHANGED <<chunkVars, embedVars, storeVars, docVars, mainVars>>

Spec == Init /\ [][Next]_vars

\* store_embeddings_in_chromadb on a store whose deletes and adds may raise:
\* one document id, ingested with two contents and under two source paths
FaultRequests ==
    {Request(ContentA, SourceA, "d1", "docs"),
     Request(ContentB, SourceA, "d1", "docs"),
     Request(ContentB, SourceB, "d1", "default")}

FaultNext ==
    \/ \E p \in DOMAIN up : \E req \in FaultRequests :
          UpsertBegin(p, req) /\ UNCHANGED <<chunkVars, embedVars, queryVars, docVars, mainVars>>
    \/ \E p \in DOMAIN up : GetDocCollection(p) /\ UNCHANGED <<chunkVars, embedVars, queryVars, docVars, mainVars>>
    \/ \E p \in DOMAIN up : GetChunksCollection(p) /\ UNCHANGED <<chunkVars, embedVars, queryVars, docVars, mainVars>>
    \/ \E p \in DOMAIN up : \E raises \in BOOLEAN :
          DeleteDocById(p, raises) /\ UNCHANGED <<chunkVars, embedVars, queryVars, docVars, mainVars>>
    \/ \E p \in DOMAIN up : \E raises \in BOOLEAN :
          DeleteDocBySource(p, raises) /\ UNCHANGED <<chunkVars, embedVars, queryVars, docVars, mainVars>>
    \/ \E p \in DOMAIN up : \E raises \in BOOLEAN :
          DeleteChunksBySource(p, raises) /\ UNCHANGED <<chunkVars, embedVars, queryVars, docVars, mainVars>>
    \/ \E p \in DOMAIN up : \E raises \in BOOLEAN :
          AddDocument(p, raises) /\ UNCHANGED <<chunkVars, embedVars, queryVars, docVars, mainVars>>
    \/ \E p \in DOMAIN up : \E raises \in BOOLEAN :
          AddChunks(p, raises) /\ UNCHANGED <<chunkVars, embedVars, queryVars, docVars, mainVars>>

SpecFaults == Init /\ [][FaultNext]_vars

\* two processes that each run store_embeddings_in_chromadb once, on the
\* same database, for the same source path and document id with different
\* content; their Chroma calls interleave in any order
RaceRequest(p) ==
    IF p = 1 THEN Request(ContentA, SourceA, "d1", "docs")
             ELSE Request(ContentB, SourceA, "d1", "docs")

RaceInit ==
    /\ text = <<"">>
    /\ chunk_size = 1
    /\ chunk_overlap = 0
    /\ chunks = <<>>
    /\ current_line_index = 0
    /\ cpc = "idle"
    /\ EmbedIdle
    /\ store = <<>>
    /\ up = [p \in {1, 2} |-> NoCall]
    /\ prev = None
    /\ ingests = 0
    /\ QueryIdle
    /\ DocIdle
    /\ MainIdle

RaceNext ==
    \/ \E p \in DOMAIN up :
          /\ up[p].pc = "idle"
          /\ UpsertBegin(p, RaceRequest(p))
          /\ UNCHANGED <<chunkVars, embedVars, queryVars, docVars, mainVars>>
    \/ \E p \in DOMAIN up : GetDocCollection(p) /\ UNCHANGED <<chunkVars, embedVars, queryVars, docVars, mainVars>>
    \/ \E p \in DOMAIN up : GetChunksCollection(p) /\ UNCHANGED <<chunkVars, embedVars, queryVars, docVars, mainVars>>
    \/ \E p \in DOMAIN up : DeleteDocById(p, FALSE) /\ UNCHANGED <<chunkVars, embedVars, queryVars, docVars, mainVars>>
    \/ \E p \in DOMAIN up : DeleteDocBySource(p, FALSE) /\ UNCHANGED <<chunkVars, embedVars, queryVars, docVars, mainVars>>
    \/ \E p \in DOMAIN up : DeleteChunksBySource(p, FALSE) /\ UNCHANGED <<chunkVars, embedVars, queryVars, docVars, mainVars>>
    \/ \E p \in DOMAIN up : AddDocument(p, FALSE) /\ UNCHANGED <<chunkVars, embedVars, queryVars, docVars, mainVars>>
    \/ \E p \in DOMAIN up : AddChunks(p, FALSE) /\ UNCHANGED <<chunkVars, embedVars, queryVars, docVars, mainVars>>

SpecRace == RaceInit /\ [][RaceNext]_vars

\* the ingestion pipeline: generate_chunk_embeddings on a text and, if it
\* succeeds, store_embeddings_in_chromadb on its output together with the
\* embedding of the whole text
PipelineInit ==
    /\ text \in {SubSeq(ContentLines, 1, n) : n \in 1..MaxPipelineLines}
    /\ chunk_size \in 1..2
    /\ chunk_overlap = 0
    /\ chunks = <<>>
    /\ current_line_index = 0
    /\ cpc = "idle"
    /\ max_workers \in 1..2
    /\ include_text \in BOOLEAN
    /\ fut = <<>>
    /\ collected = {}
    /\ chunk_embeddings = <<>>
    /\ gpc = "start"
    /\ returned = NotReturned
    /\ reordered = FALSE
    /\ sent = <<>>
    /\ StoreIdle
    /\ QueryIdle
    /\ DocIdle
    /\ MainIdle

PipelineNext ==
    \/ GenStart /\ UNCHANGED <<storeVars, queryVars, docVars, mainVars>>
    \/ \E p \in 1..MaxPipelineLines : WorkerTake(p) /\ UNCHANGED <<storeVars, queryVars, docVars, mainVars>>
    \/ \E p \in 1..MaxPipelineLines : \E ok \in BOOLEAN :
          WorkerFinish(p, ok) /\ UNCHANGED <<storeVars, queryVars, docVars, mainVars>>
    \/ \E p \in 1..MaxPipelineLines : Collect(p) /\ UNCHANGED <<storeVars, queryVars, docVars, mainVars>>
    \/ ExecutorExit /\ UNCHANGED <<storeVars, queryVars, docVars, mainVars>>
    \/ /\ gpc = "returned"
       /\ "list" \in DOMAIN returned
       /\ up[1].pc = "idle"
       /\ UpsertBegin(1, Request([document_embedding |->
                                      [text |-> text, embedding |-> EmbeddingOf(text)],
                                   chunks_data |-> returned.list],
                                  SourceA, "d1", "docs"))
       /\ UNCHANGED <<chunkVars, embedVars, queryVars, docVars, mainVars>>
    \/ GetDocCollection(1) /\ UNCHANGED <<chunkVars, embedVars, queryVars, docVars, mainVars>>
    \/ GetChunksCollection(1) /\ UNCHANGED <<chunkVars, embedVars, queryVars, docVars, mainVars>>
    \/ DeleteDocById(1, FALSE) /\ UNCHANGED <<chunkVars, embedVars, queryVars, docVars, mainVars>>
    \/ DeleteDocBySource(1, FALSE) /\ UNCHANGED <<chunkVars, embedVars, queryVars, docVars, mainVars>>
    \/ DeleteChunksBySource(1, FALSE) /\ UNCHANGED <<chunkVars, embedVars, queryVars, docVars, mainVars>>
    \/ AddDocument(1, FALSE) /\ UNCHANGED <<chunkVars, embedVars, queryVars, docVars, mainVars>>
    \/ AddChunks(1, FALSE) /\ UNCHANGED <<chunkVars, embedVars, queryVars, docVars, mainVars>>

SpecPipeline == PipelineInit /\ [][PipelineNext]_vars

\* ------------------------------------------------------------------------
\* query_chroma over a store that holds the two collections it reads
\* ------------------------------------------------------------------------
\* the records of document_collection: similarities 0.9, 0.6, 0.4 and 0.4 to
\* the query embedded at point 0
\* a source path that uses both separator conventions
SourceMixed == <<"d", "/", "s", "\\", "n">>

QueryDocRecords ==
    <<[id |-> "q1", document |-> <<"one">>, embedding |-> [vector |-> 1],
       metadata |-> [source |-> SourceA]],
      [id |-> "q2", document |-> <<"two">>, embedding |-> [vector |-> 4],
       metadata |-> [source |-> SourceB]],
      [id |-> "q3", document |-> <<"three">>, embedding |-> [vector |-> 6],
       metadata |-> [source |-> SourceMixed]],
      [id |-> "q4", document |-> <<"four">>, embedding |-> [vector |-> 6],
       metadata |-> [title |-> "t"]]>>

\* the records of document_chunks_collection: similarities 0.9 and 0.5
QueryChunkRecords ==
    <<[id |-> "q1_chunk_0", document |-> <<"one a">>, embedding |-> [vector |-> 1],
       metadata |-> [source |-> SourceA, start_line |-> 1, end_line |-> 2]],
      [id |-> "q5_chunk_0", document |-> <<"five a">>, embedding |-> [vector |-> 5],
       metadata |-> [title |-> "t"]]>>

\* the collections that hold some of the given records; the order in which
\* an index answers does not depend on the insertion order (IndexAnswers)
CollectionsOf(records) ==
    {LET Keep(rec) == rec.id \in ids IN SelectSeq(records, Keep) :
        ids \in SUBSET {records[i].id : i \in 1..Len(records)}}

\* a store with or without each of the two collections
QueryStores ==
    {(IF has_docs THEN (QueryDocCollectionName :> dc) ELSE <<>>)
       @@ (IF has_chunks THEN (QueryChunksCollectionName :> cc) ELSE <<>>) :
         has_docs \in BOOLEAN, has_chunks \in BOOLEAN,
         dc \in CollectionsOf(QueryDocRecords),
         cc \in CollectionsOf(QueryChunkRecords)}

Thresholds == {0, 5, 6}
Weights == {<<6, 4>>, <<6, 9>>, <<4, 6>>, <<0, 10>>}
QueryEmbeddings == {None, EmptyEmbedding, [vector |-> 0], [vector |-> 2]}

QueryInputs ==
    {QueryArgs(e, n, t, m, w) :
        e \in QueryEmbeddings, n \in 1..MaxResults, t \in Thresholds,
        m \in QueryModes, w \in Weights}

QueryInit ==
    /\ text = <<"">>
    /\ chunk_size = 1
    /\ chunk_overlap = 0
    /\ chunks = <<>>
    /\ current_line_index = 0
    /\ cpc = "idle"
    /\ EmbedIdle
    /\ store \in QueryStores
    /\ up = [p \in {1} |-> NoCall]
    /\ prev = None
    /\ ingests = 0
    /\ QueryIdle
    /\ DocIdle
    /\ MainIdle

QueryNext ==
    \E a \in QueryInputs :
        \E raising \in SUBSET {i \in QueriedIndexes(a.query_mode) :
                                ~IndexRaises(store,
                                             IF i = "documents"
                                               THEN QueryDocCollectionName
                                               ELSE QueryChunksCollectionName,
                                             FALSE)} :
            QueryChroma(a, raising) /\ UNCHANGED <<chunkVars, embedVars, storeVars, docVars, mainVars>>

SpecQuery == QueryInit /\ [][QueryNext]_vars

\* ------------------------------------------------------------------------
\* Claims about chunk_text (checked under SpecChunk)
\* ------------------------------------------------------------------------
ValidParams == chunk_size > chunk_overlap /\ chunk_overlap >= 0

\* the line ranges of the returned chunks, in order
Ranges == [k \in 1..Len(chunks) |-> <<chunks[k].start_line, chunks[k].end_line>>]

\* what C1 states of a finished call on a text longer than one chunk
OverlapContract ==
    /\ \A k \in 1..(Len(chunks) - 1) :
          chunks[k].end_line - chunks[k + 1].start_line + 1 = chunk_overlap
    /\ Len(chunks) >= 1
    /\ chunks[Len(chunks)].end_line = Len(text)
    /\ Len(chunks) =
          CeilDiv(Len(text) - chunk_overlap, chunk_size - chunk_overlap)
    /\ (Len(text) = 45 /\ chunk_size = 20 /\ chunk_overlap = 2)
          => Ranges = << <<1, 20>>, <<19, 38>>, <<37, 45>> >>

\* C1 (as stated): for every text with totalLines > chunkSize and valid
\* chunkSize > chunkOverlap >= 0, consecutive chunks overlap by exactly
\* chunkOverlap lines, the last chunk ends at totalLines and there are
\* ceil((totalLines - chunkOverlap) / (chunkSize - chunkOverlap)) chunks;
\* 45 lines, size 20, overlap 2 gives [1-20], [19-38], [37-45].
C1_Original ==
    (cpc = "done" /\ ValidParams /\ Len(text) > chunk_size) => OverlapContract

\* C1 (amended): the same, for every text that is not empty or
\* whitespace-only.
C1_OverlapAndCount ==
    (cpc = "done" /\ ValidParams /\ Len(text) > chunk_size /\ ~IsBlankText(text))
        => OverlapContract

\* C1 witness: the 45-line scenario has been chunked into three chunks
C1_Witness ==
    /\ cpc = "done"
    /\ Len(text) = 45 /\ chunk_size = 20 /\ chunk_overlap = 2
    /\ Len(chunks) = 3

\* what C2 states of a finished call
SingleChunkContract ==
    /\ Len(chunks) = 1
    /\ chunks[1].start_line = 1
    /\ chunks[1].end_line = Len(text)

\* C2 (as stated): for every text of any content with totalLines <= chunkSize,
\* chunk_text returns exactly one chunk with startLine = 1 and
\* endLine = totalLines.
C2_Original ==
    (cpc = "done" /\ Len(text) <= chunk_size) => SingleChunkContract

\* C2 (amended): for every text with totalLines <= chunkSize that is not
\* empty or whitespace-only, chunk_text returns exactly one chunk spanning
\* 1..totalLines; an empty or whitespace-only text yields one chunk spanning
\* 1..1, whatever its number of lines.
C2_SingleChunk ==
    /\ (cpc = "done" /\ Len(text) <= chunk_size /\ ~IsBlankText(text))
          => SingleChunkContract
    /\ (cpc = "done" /\ IsBlankText(text))
          => Ranges = << <<1, 1>> >>

\* C2 witness: a three-line text with content returned as one chunk
C2_Witness ==
    /\ cpc = "done"
    /\ ~IsBlankText(text)
    /\ Len(text) = 3 /\ chunk_size >= 3
    /\ Len(chunks) = 1

\* ------------------------------------------------------------------------
\* Claims about generate_chunk_embeddings (checked under SpecEmbed)
\* ------------------------------------------------------------------------
Succeeded == gpc = "returned" /\ "list" \in DOMAIN returned
FailedCalls == {p \in DOMAIN fut : IsDone(p) /\ fut[p].embedding = None}

\* C3: for every completion order and every maxWorkers >= 1, when
\* generate_chunk_embeddings succeeds, element i of the returned sequence has
\* chunk_id = i and carries the line range of the i-th chunk of the splitter
\* and the embedding its own call returned; and at every moment a filled
\* slot of the result array holds the result of its own chunk index.
C3_SourceOrder ==
    /\ Succeeded =>
          /\ Len(returned.list) = Len(chunk_text(text, chunk_size, chunk_overlap))
          /\ \A p \in 1..Len(returned.list) :
                LET c == chunk_text(text, chunk_size, chunk_overlap)[p] IN
                /\ returned.list[p].chunk_id = p - 1
                /\ returned.list[p].start_line = c.start_line
                /\ returned.list[p].end_line = c.end_line
                /\ returned.list[p].embedding = fut[p].embedding
                /\ returned.list[p].embedding = EmbeddingOf(c.text)
    /\ \A p \in DOMAIN chunk_embeddings :
          chunk_embeddings[p] # None =>
              /\ chunk_embeddings[p].chunk_id = p - 1
              /\ chunk_embeddings[p].embedding = fut[p].embedding

\* C3 witness: a success with three chunks on two workers in which the
\* results were not collected in submission order
C3_Witness ==
    /\ Succeeded
    /\ max_workers = 2
    /\ Len(returned.list) = 3
    /\ reordered

\* C4: generate_chunk_embeddings returns either None or a sequence with
\* exactly one non-null entry per chunk; if the call of any chunk has failed,
\* under any interleaving, it returns None.
C4_AllOrNothing ==
    gpc = "returned" =>
        /\ returned = None \/ "list" \in DOMAIN returned
        /\ FailedCalls # {} => returned = None
        /\ "list" \in DOMAIN returned =>
              /\ Len(returned.list) = Len(chunks)
              /\ \A p \in 1..Len(returned.list) :
                    /\ returned.list[p] # None
                    /\ returned.list[p].embedding # None

\* C4 witness: three workers, five chunks, only the call of chunk 4 fails,
\* the other four complete, and the result is None
C4_Witness ==
    /\ gpc = "returned"
    /\ max_workers = 3
    /\ Len(chunks) = 5
    /\ FailedCalls = {4}
    /\ returned = None

\* ------------------------------------------------------------------------
\* Claims about store_embeddings_in_chromadb (checked under Spec)
\* ------------------------------------------------------------------------
Stored(p) == up[p].pc = "done" /\ up[p].ok

\* the records of collection name with the given id
RecordsWithId(name, id) ==
    IF name \in DOMAIN store
      THEN LET Is(rec) == rec.id = id IN SelectSeq(store[name], Is)
      ELSE <<>>

\* the collection names {"default"} union {c}, names compared as exact strings
ExactNames(c) == {"default"} \cup {c}

\* the names the code resolves c to: an empty c, and a c that equals
\* "default" when case is ignored, add no name of their own
ResolvedNames(c) ==
    {"default"} \cup (IF c = "" \/ Lower(c) = "default" THEN {} ELSE {c})

\* name_documents holds one record keyed by the document id and name_chunks
\* one record keyed {documentId}_chunk_{chunkIndex} for each chunk
VisibleUnder(name, req) ==
    /\ Len(RecordsWithId(name \o "_documents", req.document_id)) = 1
    /\ \A i \in 1..Len(req.chunks_data) :
          Len(RecordsWithId(name \o "_chunks",
                            req.document_id \o "_chunk_" \o ToString(i - 1))) = 1

\* C5 (as stated): after store_embeddings_in_chromadb succeeds for collection
\* name c, for every name in {"default"} union {c}, names compared as exact
\* strings, name_documents holds one entry keyed by the document id and
\* name_chunks one entry keyed {documentId}_chunk_{chunkIndex} per chunk.
C5_Original ==
    \A p \in DOMAIN up :
        Stored(p) =>
            \A name \in ExactNames(up[p].req.collection_name) :
                VisibleUnder(name, up[p].req)

\* C5 (amended): the same for every name in {"default"} union {c}, where an
\* empty c and a c equal to "default" when case is ignored ("Default") add
\* no name: such a document is stored under default only.
C5_DualWrite ==
    \A p \in DOMAIN up :
        Stored(p) =>
            /\ \A name \in ResolvedNames(up[p].req.collection_name) :
                  VisibleUnder(name, up[p].req)
            /\ \A name \in ExactNames(up[p].req.collection_name)
                             \ ResolvedNames(up[p].req.collection_name) :
                  name \o "_documents" \notin DOMAIN store

\* C5 witness: a document stored under "docs" over an earlier ingestion is
\* visible under default and docs
C5_Witness ==
    /\ Stored(1)
    /\ prev # None
    /\ up[1].req.collection_name = "docs"
    /\ VisibleUnder("default", up[1].req)
    /\ VisibleUnder("docs", up[1].req)

\* the records of collection name that belong to document id: keyed by it
\* or carrying it as parent document id
RecordsOfDocument(name, id) ==
    IF name \in DOMAIN store
      THEN LET Is(rec) == \/ rec.id = id
                          \/ /\ "source_id" \in DOMAIN rec.metadata
                             /\ rec.metadata.source_id = id
           IN SelectSeq(store[name], Is)
      ELSE <<>>

SameContent(a, b) ==
    /\ a.document_embedding = b.document_embedding
    /\ a.chunks_data = b.chunks_data

\* C6: ingesting the same sourcePath and id twice in sequence with different
\* content leaves, in every resolved collection, exactly one document entry
\* for the id and exactly the chunk entries of the second ingestion, all
\* matching the second ingestion's content.
C6_ReplaceNotAppend ==
    \A p \in DOMAIN up :
        (/\ Stored(p)
         /\ prev # None
         /\ prev.ok
         /\ prev.req.source_path = up[p].req.source_path
         /\ prev.req.document_id = up[p].req.document_id
         /\ ~SameContent(prev.req, up[p].req))
        => \A name \in ResolvedNames(up[p].req.collection_name) :
              /\ RecordsOfDocument(name \o "_documents", up[p].req.document_id)
                    = <<DocRecord(up[p].req, name)>>
              /\ RecordsOfDocument(name \o "_chunks", up[p].req.document_id)
                    = ChunkRecords(up[p].req, name)

\* ------------------------------------------------------------------------
\* Claims about query_chroma
\* ------------------------------------------------------------------------
Answered == qret # NotReturned /\ "results" \in DOMAIN qret

\* the index answer a returned result was taken from
HitsOf(result) == IF result.is_chunk THEN chunk_results ELSE doc_results

FromHit(result) ==
    \E j \in 1..Len(HitsOf(result)) :
        /\ HitsOf(result)[j].document = result.document
        /\ result.similarity = Grid - HitsOf(result)[j].distance

\* C7: a query reads the {c}_documents index (mode documents or both) and
\* the {c}_chunks index (mode chunks or both) of a collection c that the
\* store writes, so a document stored by a successful upsert is a
\* nearest-neighbour candidate of a following query.
C7_QueryReadsStoredCollections ==
    (/\ Answered
     /\ qat.quiescent
     /\ qat.ingests = ingests
     /\ Stored(1))
    => /\ \E c \in {"default", up[1].req.collection_name} :
             qread = (IF qargs.query_mode \in {"documents", "both"}
                        THEN {c \o "_documents"} ELSE {})
                     \cup (IF qargs.query_mode \in {"chunks", "both"}
                             THEN {c \o "_chunks"} ELSE {})
       /\ qargs.query_mode \in {"documents", "both"} =>
             \E j \in 1..Len(doc_results) :
                 doc_results[j].metadata.source = up[1].req.source_path

SimilaritiesOf(seq) == [i \in 1..Len(seq) |-> seq[i].similarity]
HitSimilarities(hits) == [i \in 1..Len(hits) |-> Grid - hits[i].distance]
AtOrAbove(hits, threshold) ==
    {j \in 1..Len(hits) : Grid - hits[j].distance >= threshold}

\* the hit is among the returned results
Returned(hit, is_chunk) ==
    \E i \in 1..Len(qret.results) :
        /\ qret.results[i].is_chunk = is_chunk
        /\ qret.results[i].document = hit.document
        /\ qret.results[i].similarity = Grid - hit.distance

\* C8 (as stated): in every mode and for all weights a hit of distance d is
\* in the output only if 1 - d >= threshold, and a hit is dropped exactly
\* when 1 - d < threshold: every hit with 1 - d >= threshold is returned.
C8_Original ==
    Answered =>
        /\ \A i \in 1..Len(qret.results) :
              /\ qret.results[i].similarity >= qargs.threshold
              /\ FromHit(qret.results[i])
        /\ \A j \in AtOrAbove(doc_results, qargs.threshold) :
              Returned(doc_results[j], FALSE)
        /\ \A j \in AtOrAbove(chunk_results, qargs.threshold) :
              Returned(chunk_results[j], TRUE)

\* C8 (amended): in every mode and for all weights a hit of distance d is in
\* the output only if 1 - d >= threshold, and the threshold drops a hit
\* exactly when 1 - d < threshold: the results that pass are, per index, the
\* hits with 1 - d >= threshold.  All of them are returned in mode documents
\* and in mode chunks; in mode both the n_results of highest ranking key
\* are returned, so a hit that passed can still be cut.  Mode documents,
\* threshold 0.5, candidate similarities 0.9, 0.6, 0.4 returns 0.9, 0.6.
C8_ThresholdOnRaw ==
    Answered =>
        /\ \A i \in 1..Len(qret.results) :
              /\ qret.results[i].similarity >= qargs.threshold
              /\ FromHit(qret.results[i])
        /\ Len(doc_results_list) = Cardinality(AtOrAbove(doc_results, qargs.threshold))
        /\ Len(chunk_results_list) = Cardinality(AtOrAbove(chunk_results, qargs.threshold))
        /\ \A j \in AtOrAbove(doc_results, qargs.threshold) :
              \E i \in 1..Len(doc_results_list) :
                  /\ doc_results_list[i].document = doc_results[j].document
                  /\ doc_results_list[i].similarity = Grid - doc_results[j].distance
        /\ \A j \in AtOrAbove(chunk_results, qargs.threshold) :
              \E i \in 1..Len(chunk_results_list) :
                  /\ chunk_results_list[i].document = chunk_results[j].document
                  /\ chunk_results_list[i].similarity = Grid - chunk_results[j].distance
        /\ qargs.query_mode # "both" =>
              /\ \A j \in AtOrAbove(doc_results, qargs.threshold) :
                    Returned(doc_results[j], FALSE)
              /\ \A j \in AtOrAbove(chunk_results, qargs.threshold) :
                    Returned(chunk_results[j], TRUE)
        /\ qret.count = Min(qargs.n_results,
                            Cardinality(AtOrAbove(doc_results, qargs.threshold))
                            + Cardinality(AtOrAbove(chunk_results, qargs.threshold)))
        /\ (/\ qargs.query_mode = "documents"
            /\ qargs.threshold = 5
            /\ HitSimilarities(doc_results) = <<9, 6, 4>>)
           => SimilaritiesOf(qret.results) = <<9, 6>>

\* C8 witness: mode documents, threshold 0.5, candidates 0.9, 0.6, 0.4:
\* 0.9 and 0.6 are returned
C8_Witness ==
    /\ Answered
    /\ qargs.query_mode = "documents"
    /\ qargs.threshold = 5
    /\ HitSimilarities(doc_results) = <<9, 6, 4>>
    /\ SimilaritiesOf(qret.results) = <<9, 6>>

\* the ranking key of a returned result, from its similarity and the weights
RankingKey(result) ==
    IF qargs.query_mode = "both"
      THEN result.similarity
             * (IF result.is_chunk THEN qargs.chunk_weight ELSE qargs.document_weight)
      ELSE result.similarity * Grid

\* C9: the returned sequence is in descending order of the ranking key:
\* similarity * document_weight (documents) and similarity * chunk_weight
\* (chunks) in mode both, the raw similarity in mode documents or chunks.
C9_SortedByActiveKey ==
    Answered =>
        \A i, j \in 1..Len(qret.results) :
            i < j => RankingKey(qret.results[i]) >= RankingKey(qret.results[j])

\* C9 witness: in mode both a document is returned before a chunk of higher
\* raw similarity
C9_Witness ==
    /\ Answered
    /\ qargs.query_mode = "both"
    /\ \E i, j \in 1..Len(qret.results) :
          /\ i < j
          /\ ~qret.results[i].is_chunk
          /\ qret.results[j].is_chunk
          /\ qret.results[i].similarity < qret.results[j].similarity
          /\ RankingKey(qret.results[i]) > RankingKey(qret.results[j])

\* C10: in every mode and for all weights each returned result's similarity
\* is the unweighted 1 - distance of its hit, and no returned result has an
\* adjusted_similarity field.
C10_RawSimilarityReturned ==
    Answered =>
        \A i \in 1..Len(qret.results) :
            /\ "adjusted_similarity" \notin DOMAIN qret.results[i]
            /\ "similarity" \in DOMAIN qret.results[i]
            /\ \E j \in 1..Len(HitsOf(qret.results[i])) :
                  /\ HitsOf(qret.results[i])[j].document = qret.results[i].document
                  /\ HitsOf(qret.results[i])[j].distance
                       = Grid - qret.results[i].similarity

\* C10 witness: mode both with weights 0.6 and 0.9: a chunk of similarity 0.9
\* and a document are returned with their raw similarities
C10_Witness ==
    /\ Answered
    /\ qargs.query_mode = "both"
    /\ qargs.chunk_weight = 6
    /\ qargs.document_weight = 9
    /\ \E i, j \in 1..Len(qret.results) :
          /\ qret.results[i].is_chunk
          /\ qret.results[i].similarity = 9
          /\ ~qret.results[j].is_chunk
          /\ DOMAIN qret.results[j]
               = {"document", "metadata", "similarity", "is_chunk"}

\* the results that passed the threshold, of the indexes the mode queries
Survivors == doc_results_list \o chunk_results_list

IsReturned(survivor) ==
    \E i \in 1..Len(qret.results) :
        /\ qret.results[i].is_chunk = survivor.is_chunk
        /\ qret.results[i].document = survivor.document

\* C11: a successful query returns at most n_results results, the first
\* n_results of the ranked merged list: each returned result is a survivor,
\* as many are returned as n_results allows, no survivor that is left out
\* ranks strictly above a returned one, and count is the number returned.
C11_TruncatedToMaxResults ==
    Answered =>
        /\ Len(qret.results) <= qargs.n_results
        /\ Len(qret.results) = Min(qargs.n_results, Len(Survivors))
        /\ qret.count = Len(qret.results)
        /\ \A i \in 1..Len(qret.results) :
              \E k \in 1..Len(Survivors) :
                  /\ Survivors[k].is_chunk = qret.results[i].is_chunk
                  /\ Survivors[k].document = qret.results[i].document
                  /\ Survivors[k].similarity = qret.results[i].similarity
        /\ \A i, j \in 1..Len(qret.results) :
              (/\ i # j
               /\ qret.results[i].is_chunk = qret.results[j].is_chunk)
              => qret.results[i].document # qret.results[j].document
        /\ \A k \in 1..Len(Survivors) :
              ~IsReturned(Survivors[k]) =>
                  \A i \in 1..Len(qret.results) :
                      RankingKey(qret.results[i]) >= RankingKey(Survivors[k])

\* C11 witness: mode both, n_results 2, more survivors than that: two are
\* returned and a survivor of lower key is left out
C11_Witness ==
    /\ Answered
    /\ qargs.query_mode = "both"
    /\ qargs.n_results = 2
    /\ Len(Survivors) > 2
    /\ qret.count = 2
    /\ \E k \in 1..Len(Survivors) :
          /\ ~IsReturned(Survivors[k])
          /\ RankingKey(Survivors[k]) < RankingKey(qret.results[2])

\* a query whose embedding was obtained
Embedded == qargs # None /\ ~NoQueryEmbedding(qargs.query_embedding)

\* C12: if querying one index fails (the collection does not exist, or the
\* query raises) the query does not fail: that index contributes zero
\* results, and in mode both the results of the other index that pass the
\* threshold are returned, ranked.
C12_IndexFailureDegrades ==
    (qret # NotReturned /\ Embedded) =>
        /\ Answered
        /\ "documents" \in qfailed =>
              /\ doc_results_list = <<>>
              /\ \A i \in 1..Len(qret.results) : qret.results[i].is_chunk
        /\ "chunks" \in qfailed =>
              /\ chunk_results_list = <<>>
              /\ \A i \in 1..Len(qret.results) : ~qret.results[i].is_chunk
        /\ (qargs.query_mode = "both" /\ qfailed = {"documents"}) =>
              /\ \A j \in AtOrAbove(chunk_results, qargs.threshold) :
                    Returned(chunk_results[j], TRUE)
              /\ qret.count = Cardinality(AtOrAbove(chunk_results, qargs.threshold))
              /\ \A i, j \in 1..Len(qret.results) :
                    i < j => qret.results[i].similarity >= qret.results[j].similarity
        /\ (qargs.query_mode = "both" /\ qfailed = {"chunks"}) =>
              /\ \A j \in AtOrAbove(doc_results, qargs.threshold) :
                    Returned(doc_results[j], FALSE)
              /\ qret.count = Cardinality(AtOrAbove(doc_results, qargs.threshold))
              /\ \A i, j \in 1..Len(qret.results) :
                    i < j => qret.results[i].similarity >= qret.results[j].similarity

\* C12 witness: mode both, the document index fails and the chunk index
\* answers with two hits over the threshold: both chunks are returned
C12_Witness ==
    /\ Answered
    /\ qargs.query_mode = "both"
    /\ qfailed = {"documents"}
    /\ QueryDocCollectionName \in DOMAIN store
    /\ Len(chunk_results) = 2
    /\ qret.count = 2
    /\ qret.results[1].is_chunk

\* C13: if embedding the query text fails, query_chroma returns an error
\* object and no results, and queries neither the document index nor the
\* chunk index.
C13_EmbedFailureAborts ==
    (/\ qret # NotReturned
     /\ qargs # None
     /\ NoQueryEmbedding(qargs.query_embedding))
    => /\ "error" \in DOMAIN qret
       /\ "results" \notin DOMAIN qret
       /\ "count" \notin DOMAIN qret
       /\ qread = {}
       /\ qfailed = {}
       /\ doc_results = <<>>
       /\ chunk_results = <<>>
       /\ doc_results_list = <<>>
       /\ chunk_results_list = <<>>

\* C13 witness: the embedding of the query failed (None) in mode both over
\* a store whose two collections hold records; the call returned an error
C13_Witness ==
    /\ qret # NotReturned
    /\ qargs # None
    /\ qargs.query_embedding = None
    /\ qargs.query_mode = "both"
    /\ QueryDocCollectionName \in DOMAIN store
    /\ QueryChunksCollectionName \in DOMAIN store
    /\ Len(store[QueryDocCollectionName]) > 0
    /\ Len(store[QueryChunksCollectionName]) > 0
    /\ "error" \in DOMAIN qret
    /\ qread = {}

\* ------------------------------------------------------------------------
\* Claims about empty input, the worker pool and the embedding clients
\* ------------------------------------------------------------------------

\* the text is empty or has nothing but spaces and line ends
WhitespaceOnly(t) == \A i \in 1..Len(t) : t[i] = "" \/ t[i] = " "

\* C14: for empty or whitespace-only text generate_chunk_embeddings and
\* generate_document_embedding return None (Failure) at once: no chunk is
\* made, no task is submitted and no prompt is sent to the embedding service.
C14_BlankTextRejected ==
    WhitespaceOnly(text) =>
        /\ gpc # "start" =>
              /\ gpc = "returned"
              /\ returned = None
              /\ sent = <<>>
              /\ fut = <<>>
              /\ chunks = <<>>
        /\ dpc # "start" =>
              /\ dpc = "returned"
              /\ dret = None
              /\ dsent = <<>>

\* C14 witness: both functions have returned None for a text of an empty line
\* and a line of one space, and nothing was sent
C14_Witness ==
    /\ text = <<"", " ">>
    /\ gpc = "returned"
    /\ returned = None
    /\ dpc = "returned"
    /\ dret = None
    /\ sent = <<>>
    /\ dsent = <<>>

\* the prompts of the chunks, in chunk order
ChunkPrompts == [p \in 1..Len(chunks) |-> chunks[p].text]

\* C15: generate_chunk_embeddings dispatches exactly one embedding call per
\* chunk (never a second call for a chunk, and by the return one call for
\* each, also when the function returns None), and at every moment at most
\* max_workers calls are in flight.
C15_BoundedInFlight ==
    /\ Cardinality(Running) <= max_workers
    /\ Len(sent) <= Len(chunks)
    /\ sent = SubSeq(ChunkPrompts, 1, Len(sent))
    /\ Len(sent) = Cardinality({p \in DOMAIN fut : fut[p].state # "queued"})
    /\ gpc = "returned" => sent = ChunkPrompts

\* C15 witness: two workers, both busy, and a third chunk waiting its turn
C15_Witness ==
    /\ max_workers = 2
    /\ Cardinality(Running) = 2
    /\ Len(chunks) >= 3
    /\ \E p \in DOMAIN fut : fut[p].state = "queued"
    /\ Len(sent) = 2

\* a numeric vector: a non-empty list of numbers
IsVector(v) ==
    /\ v.type = "list"
    /\ Len(v.items) > 0
    /\ \A i \in 1..Len(v.items) : v.items[i].type = "num"

\* the vector a dictionary carries: a single vector under "embedding", or
\* the first of a list of vectors under "embeddings"; None if neither
CarriedVector(d) ==
    IF "embedding" \in DOMAIN d.fields /\ IsVector(d.fields.embedding)
      THEN d.fields.embedding
    ELSE IF /\ "embeddings" \in DOMAIN d.fields
            /\ d.fields.embeddings.type = "list"
            /\ Len(d.fields.embeddings.items) > 0
            /\ \A i \in 1..Len(d.fields.embeddings.items) :
                  IsVector(d.fields.embeddings.items[i])
      THEN d.fields.embeddings.items[1]
    ELSE None

\* the vector one of the four recognised shapes resolves to; None if the
\* body matches none of them
RecognisedVector(data) ==
    IF data.type = "dict" THEN CarriedVector(data)
    ELSE IF IsVector(data) THEN data
    ELSE IF /\ data.type = "list"
            /\ Len(data.items) > 0
            /\ \A i \in 1..Len(data.items) :
                  /\ data.items[i].type = "dict"
                  /\ CarriedVector(data.items[i]) # None
      THEN CarriedVector(data.items[1])
    ELSE None

ExpectedOf(outcome) ==
    IF outcome.kind = "response" THEN RecognisedVector(outcome.data) ELSE None

\* C16: a client succeeds with vector v if and only if the response matches
\* one of the four recognised shapes and v is the numeric vector the shape
\* resolves to; any other response is a Failure (no exception, no embedding).
\* This holds for the two ingestion-side clients and the query-side client.
C16_RecognisedShapes ==
    cres # None =>
        /\ cres.document = Parsed(ExpectedOf(cres.outcome))
        /\ cres.chunk = Parsed(ExpectedOf(cres.outcome))
        /\ cres.query = Parsed(ExpectedOf(cres.outcome))

\* C17: when validate_parameters reports any error the tool exits with code
\* 1, having made no network call and no store call and having created or
\* changed nothing on the file system, the log directory included.
C17_ValidationNoSideEffects ==
    (mpc = "exited" /\ merrors # {}) =>
        /\ mexit = 1
        /\ gpc = "idle"
        /\ sent = <<>>
        /\ store = <<>>
        /\ mfs = InitialDirs

\* ------------------------------------------------------------------------
\* Claims about failures of store_embeddings_in_chromadb (checked under Spec)
\* ------------------------------------------------------------------------
RecordsIn(db, name) == IF name \in DOMAIN db THEN db[name] ELSE <<>>

\* the two collections of the name hold what they held before the call
AsBefore(p, name) ==
    /\ RecordsIn(store, name \o "_documents")
         = RecordsIn(up[p].before, name \o "_documents")
    /\ RecordsIn(store, name \o "_chunks")
         = RecordsIn(up[p].before, name \o "_chunks")

\* the two collections of the name hold the document entry and every chunk
\* entry of the call
HoldsIngestion(p, name) ==
    /\ DocEmbeddingComplete(up[p].req.document_embedding)
    /\ ChunksComplete(up[p].req.chunks_data)
    /\ VisibleUnder(name, up[p].req)

\* C18: after store_embeddings_in_chromadb returns (success or Failure),
\* for each resolved collection name the name's two collections either hold
\* the complete new ingestion or are as they were before the call.
C18_PerNameAllOrNothing ==
    \A p \in DOMAIN up :
        up[p].pc = "done" =>
            \A i \in 1..Len(up[p].names) :
                HoldsIngestion(p, up[p].names[i]) \/ AsBefore(p, up[p].names[i])

\* C19: if an add into one resolved collection name fails, the call returns
\* Failure, no later collection name is attempted (its collections are not
\* created and not changed), and the entries written to the earlier names
\* remain in the store.
C19_NoRollback ==
    \A p \in DOMAIN up :
        (up[p].pc = "done" /\ up[p].failed_at # 0) =>
            /\ ~up[p].ok
            /\ up[p].k = up[p].failed_at
            /\ \A j \in (up[p].failed_at + 1)..Len(up[p].names) :
                  /\ AsBefore(p, up[p].names[j])
                  /\ \A n \in {up[p].names[j] \o "_documents",
                               up[p].names[j] \o "_chunks"} :
                        n \in DOMAIN store <=> n \in DOMAIN up[p].before
            /\ \A j \in 1..(up[p].failed_at - 1) :
                  HoldsIngestion(p, up[p].names[j])

\* C19 witness: the first ingestion into an empty store fails at the add
\* into docs, after default was written: default holds the document and its
\* chunks, docs holds the document without chunks or nothing
C19_Witness ==
    /\ up[1].pc = "done"
    /\ up[1].names = <<"default", "docs">>
    /\ up[1].failed_at = 2
    /\ ~up[1].ok
    /\ up[1].before = <<>>
    /\ HoldsIngestion(1, "default")
    /\ ~HoldsIngestion(1, "docs")

\* ------------------------------------------------------------------------
\* Claim about include_text (checked under SpecEmbed)
\* ------------------------------------------------------------------------
\* what a run sends and returns, written from its inputs other than
\* include_text: the chunks of the text, and per chunk the entry without text
ChunksOfInput ==
    IF WhitespaceOnly(text) THEN <<>> ELSE chunk_text(text, chunk_size, chunk_overlap)
EntryOfInput(p) ==
    [chunk_id |-> p - 1,
     start_line |-> ChunksOfInput[p].start_line,
     end_line |-> ChunksOfInput[p].end_line,
     embedding |-> EmbeddingOf(ChunksOfInput[p].text)]
WithoutText(entry) == [f \in DOMAIN entry \ {"text"} |-> entry[f]]

\* C20: two runs of generate_chunk_embeddings that differ only in
\* include_text send the same sequence of texts and return the same chunk
\* ids, line ranges and embeddings: at the return the texts sent, and every
\* returned entry apart from its text field, are determined by the other
\* inputs alone, and an entry has a text field exactly if include_text.
C20_IncludeTextOnlySerialized ==
    gpc = "returned" =>
        /\ sent = [p \in 1..Len(ChunksOfInput) |-> ChunksOfInput[p].text]
        /\ returned = None <=> (WhitespaceOnly(text) \/ FailedCalls # {})
        /\ Succeeded =>
              /\ Len(returned.list) = Len(ChunksOfInput)
              /\ \A p \in 1..Len(returned.list) :
                    /\ WithoutText(returned.list[p]) = EntryOfInput(p)
                    /\ "text" \in DOMAIN returned.list[p] <=> include_text
                    /\ include_text =>
                          returned.list[p].text = ChunksOfInput[p].text

\* C20 witness: a successful run without text over several chunks
C20_Witness ==
    /\ Succeeded
    /\ ~include_text
    /\ Len(returned.list) >= 3
    /\ \A p \in 1..Len(returned.list) :
          DOMAIN returned.list[p] = {"chunk_id", "start_line", "end_line", "embedding"}

\* ------------------------------------------------------------------------
\* Claims about document_names and ties (checked under SpecQuery)
\* ------------------------------------------------------------------------
PathSeparators == {"/", "\\"}

\* the part of the path after its last separator, of either convention
Basename(path) ==
    LET last == SetMax({0} \cup {i \in 1..Len(path) : path[i] \in PathSeparators})
    IN  SubSeq(path, last + 1, Len(path))

\* the name a result is listed under; a result without source metadata is
\* listed as "unknown"
NameOf(metadata) ==
    IF "source" \in DOMAIN metadata THEN Basename(metadata.source) ELSE Unknown

NamesOfPassing(hits) ==
    {NameOf(hits[j].metadata) : j \in AtOrAbove(hits, qargs.threshold)}

\* C21: document_names of a successful query is the set of distinct
\* basenames (the part after the last path separator, / or \) of the source
\* of every hit that passed the threshold, returned or cut off by n_results.
C21_DocumentNames ==
    Answered =>
        qret.document_names
            = NamesOfPassing(doc_results) \cup NamesOfPassing(chunk_results)

\* ------------------------------------------------------------------------
\* Claims about the coverage and the termination of chunk_text (checked
\* under SpecChunk and SpecChunkFair)
\* ------------------------------------------------------------------------
\* what C22 states of a finished call
CoverContract ==
    /\ Len(chunks) >= 1
    /\ chunks[1].start_line = 1
    /\ \A line \in 1..Len(text) :
          \E k \in 1..Len(chunks) :
              chunks[k].start_line <= line /\ line <= chunks[k].end_line
    /\ \A k \in 1..(Len(chunks) - 1) :
          chunks[k + 1].start_line <= chunks[k].end_line + 1
    /\ \A k \in 1..Len(chunks) :
          /\ chunks[k].start_line <= chunks[k].end_line
          /\ chunks[k].end_line - chunks[k].start_line + 1 <= chunk_size
          /\ chunks[k].end_line <= Len(text)
          /\ chunks[k].text = SubSeq(text, chunks[k].start_line, chunks[k].end_line)
    /\ chunks[Len(chunks)].end_line = Len(text)

\* C22 (as stated): for valid chunkSize > chunkOverlap >= 0 and any text,
\* the chunks cover 1..totalLines contiguously: the first starts at line 1,
\* every line lies in a chunk, every chunk has startLine <= endLine and at
\* most chunkSize lines, the last ends at totalLines, and each chunk's text
\* is the original lines startLine..endLine.
C22_Original ==
    (cpc = "done" /\ ValidParams) => CoverContract

\* C22 (amended): the same, for every text that is not empty or
\* whitespace-only.
C22_Coverage ==
    (cpc = "done" /\ ValidParams /\ ~WhitespaceOnly(text)) => CoverContract

\* C22 witness: a text with content chunked into three or more overlapping
\* chunks
C22_Witness ==
    /\ cpc = "done"
    /\ ValidParams
    /\ ~WhitespaceOnly(text)
    /\ chunk_overlap >= 1
    /\ Len(chunks) >= 3
    /\ Len(text) = MaxLines

\* the chunks of a finished call that end at the last line
EndingAtLastLine == {k \in 1..Len(chunks) : chunks[k].end_line = Len(text)}

\* C23: chunk_text terminates for every text, chunkSize >= 1 and
\* chunkOverlap >= 0, also with chunkOverlap >= chunkSize: every call
\* finishes; from one loop iteration to the next the cursor advances by
\* max(1, chunkSize - chunkOverlap); and the loop stops exactly when a
\* chunk's end reaches the last line, so that chunk is the last one.
C23_Terminates ==
    /\ <>(cpc = "done")
    /\ [][(cpc = "loop" /\ cpc' = "loop" /\ chunks # <<>>) =>
             /\ current_line_index'
                  = current_line_index + Max(1, chunk_size - chunk_overlap)
             /\ current_line_index' > current_line_index]_vars
    /\ []((cpc = "loop") => EndingAtLastLine = {})
    /\ []((cpc = "done" /\ ~WhitespaceOnly(text) /\ Len(text) > chunk_size)
             => EndingAtLastLine = {Len(chunks)})

\* C23 witness: a call with chunkOverlap >= chunkSize that went through the
\* loop several times and has finished
C23_Witness ==
    /\ cpc = "done"
    /\ chunk_overlap >= chunk_size
    /\ Len(text) > chunk_size + 1
    /\ Len(chunks) = Len(text) - chunk_size + 1
    /\ Len(chunks) >= 3

\* ------------------------------------------------------------------------
\* Claim about cancellation (checked under SpecEmbed)
\* ------------------------------------------------------------------------
\* C24: there is no mid-batch cancellation in generate_chunk_embeddings:
\* after the call of one chunk has failed, every call given to the pool is
\* still started and runs to its end, none is cancelled, and once they are
\* done the function returns None, never a list.
C24_NoCancellation ==
    (gpc = "returned" /\ FailedCalls # {}) =>
        /\ returned = None
        /\ \A p \in DOMAIN fut : fut[p].state = "done"
        /\ DOMAIN fut = 1..Len(chunks)
        /\ Len(sent) = Len(chunks)

\* C24 witness: one worker, five chunks, the first call failed and is the
\* only result the function collected; the four other calls, queued at that
\* time, were made all the same and returned embeddings
C24_Witness ==
    /\ gpc = "returned"
    /\ returned = None
    /\ max_workers = 1
    /\ Len(chunks) = 5
    /\ FailedCalls = {1}
    /\ collected = {1}
    /\ Len(sent) = 5
    /\ \A p \in 2..5 : fut[p].state = "done" /\ fut[p].embedding # None

\* ------------------------------------------------------------------------
\* Claim about timeouts (checked under SpecEmbedLive)
\* ------------------------------------------------------------------------
\* C25: every embedding call, chunk-level and document-level, blocks for at
\* most a fixed timeout, so embedding a document always eventually ends with
\* success or Failure, also when the embedding service never responds: both
\* generate_chunk_embeddings and generate_document_embedding return.
C25_EmbeddingTerminates ==
    /\ <>(gpc = "returned")
    /\ <>(dpc = "returned")

\* ------------------------------------------------------------------------
\* Claim about the deletes of an upsert (checked under SpecFaults)
\* ------------------------------------------------------------------------
DeleteSteps == {"delete_id", "delete_doc_source", "delete_chunk_source"}
StepAfter(pc) ==
    CASE pc = "delete_id" -> "delete_doc_source"
      [] pc = "delete_doc_source" -> "delete_chunk_source"
      [] pc = "delete_chunk_source" -> "add_document"

\* C26: the pre-insert deletes of an upsert (document by id, documents by
\* source, chunks by source) are independently best-effort: whether a delete
\* raises, finds nothing or deletes, the call goes on to the next delete or
\* to the add of the document in the same collection name, and a call
\* returns Failure only if one of its adds failed.
C26_DeletesBestEffort ==
    /\ [][\A p \in DOMAIN up :
            (up[p].pc \in DeleteSteps /\ up'[p] # up[p]) =>
                /\ up'[p].pc = StepAfter(up[p].pc)
                /\ up'[p].k = up[p].k
                /\ up'[p].failed_at = 0]_vars
    /\ [](\A p \in DOMAIN up :
            (up[p].pc = "done" /\ ~up[p].ok) => up[p].failed_at # 0)
    /\ [](\A p \in DOMAIN up :
            (up[p].pc = "done" /\ up[p].failed_at = 0) =>
                /\ up[p].ok
                /\ up[p].k = Len(up[p].names))

\* C26 witness: a call over an earlier ingestion in which all six deletes
\* (three in default, three in docs) raised has returned success
C26_Witness ==
    /\ up[1].pc = "done"
    /\ up[1].ok
    /\ up[1].names = <<"default", "docs">>
    /\ up[1].deletes_failed = 6
    /\ prev # None
    /\ prev.ok

\* the place of a returned result in the merged list before the sort: the
\* answer of the document index, then the answer of the chunk index
PlaceBeforeSort(result) ==
    CHOOSE k \in 1..Len(Survivors) :
        /\ Survivors[k].is_chunk = result.is_chunk
        /\ Survivors[k].document = result.document

\* C27: returned results of equal ranking key are in the order in which
\* the indexes returned them (the sort is stable, with no secondary key);
\* in mode both a document result precedes a chunk result of equal key.
C27_StableTies ==
    Answered =>
        \A i, j \in 1..Len(qret.results) :
            (i < j /\ RankingKey(qret.results[i]) = RankingKey(qret.results[j])) =>
                /\ PlaceBeforeSort(qret.results[i]) < PlaceBeforeSort(qret.results[j])
                /\ ~(qret.results[i].is_chunk /\ ~qret.results[j].is_chunk)

\* C27 witness: mode both, a document and a chunk of higher raw similarity
\* have the same weighted key, and the document is returned first
C27_Witness ==
    /\ Answered
    /\ qargs.query_mode = "both"
    /\ \E i \in 1..(Len(qret.results) - 1) :
          /\ RankingKey(qret.results[i]) = RankingKey(qret.results[i + 1])
          /\ ~qret.results[i].is_chunk
          /\ qret.results[i + 1].is_chunk
          /\ qret.results[i].similarity < qret.results[i + 1].similarity

\* ------------------------------------------------------------------------
\* Claim about concurrent upserts (checked under SpecRace)
\* ------------------------------------------------------------------------
Range(seq) == {seq[i] : i \in 1..Len(seq)}

\* the entries of document id in the two collections of the name are those
\* of the ingestion of process w, and no others
HoldsOnly(w, name) ==
    LET req == up[w].req
        docs == RecordsOfDocument(name \o "_documents", req.document_id)
        chks == RecordsOfDocument(name \o "_chunks", req.document_id)
    IN  /\ docs = <<DocRecord(req, name)>>
        /\ Len(chks) = Len(req.chunks_data)
        /\ Range(chks) = Range(ChunkRecords(req, name))

\* C28: when two upserts for the same sourcePath and id run concurrently,
\* their delete and add steps interleaved in any order, then after both
\* have finished each resolved collection holds exactly one document entry
\* for the id, and that entry and all chunk entries of the document carry
\* the content of one and the same ingestion; no mixture of the two remains.
C28_LastWriterWins ==
    (/\ DOMAIN up = {1, 2}
     /\ \A p \in DOMAIN up : up[p].pc = "done" /\ up[p].ok)
    => \A name \in ResolvedNames(up[1].req.collection_name) :
          \E w \in DOMAIN up : HoldsOnly(w, name)

\* ------------------------------------------------------------------------
\* Claims about what an upsert leaves and accepts (checked under Spec and
\* SpecPipeline)
\* ------------------------------------------------------------------------
\* C29: after a successful upsert of document id D, every chunk entry in
\* each resolved {name}_chunks collection whose parent document id
\* (source_id) is D belongs to this ingestion: its chunk_id is below the new
\* total_chunks and its source is the new sourcePath.
C29_NoStaleChunks ==
    \A p \in DOMAIN up :
        Stored(p) =>
            \A name \in ResolvedNames(up[p].req.collection_name) :
                \A rec \in Range(RecordsIn(store, name \o "_chunks")) :
                    rec.metadata.source_id = up[p].req.document_id =>
                        /\ rec.metadata.chunk_id < Len(up[p].req.chunks_data)
                        /\ rec.metadata.source = up[p].req.source_path

\* C30: every successful output of generate_chunk_embeddings, produced with
\* include_text true or false, is accepted by store_embeddings_in_chromadb:
\* storing it together with a valid document embedding succeeds and leaves
\* the document entry and all of its chunk entries in each resolved
\* collection.
C30_OutputAccepted ==
    (/\ gpc = "returned"
     /\ "list" \in DOMAIN returned
     /\ up[1].pc = "done"
     /\ up[1].req.chunks_data = returned.list)
    => /\ up[1].ok
       /\ \A name \in ResolvedNames(up[1].req.collection_name) :
             VisibleUnder(name, up[1].req)

====
